---- MODULE Spec2Model ----
(***************************************************************************)
(* Model of the shared fetch/upsert engine of the data pipelines:          *)
(*   shared/supabase_client.py : batch_upsert, _upsert_single_batch        *)
(*   shared/sitg_arcgis.py     : _get_json, get_record_count,              *)
(*                               fetch_all_features                        *)
(*   pipelines/*/import.py     : main of the five jobs                     *)
(* Spec: a behaviour is one call of batch_upsert or one call of            *)
(* fetch_all_features (Init chooses which); the remote side is the         *)
(* environment and answers every request with any response of a small      *)
(* alphabet.  SpecRepeat: batch_upsert is called twice against a table     *)
(* that merges on conflict.  SpecJobs: one run of one job.  The variables  *)
(* of the parts that are not running stay idle.                            *)
(***************************************************************************)
EXTENDS Integers, Sequences, FiniteSets, TLC

VARIABLES
    \* ---- batch_upsert (supabase_client.py) ----
    url,            \* argument url ("" when missing)
    key,            \* argument key ("" when missing)
    records,        \* argument records: the list to upsert
    batch_size,     \* argument batch_size
    u_pc,           \* position in batch_upsert: idle/start/loop/post/done/raised
    i,              \* loop variable i of `for i in range(0, len(records), batch_size)`
    batch,          \* records[i : i + batch_size], the chunk being sent
    attempt,        \* loop variable attempt of _upsert_single_batch
    total_upserted, \* running total
    u_returned,     \* <<>> until batch_upsert returns, then <<value>>
    outcomes,       \* history: one entry per chunk that reached a terminal state
    u_responses,    \* history: responses to the POSTs of the current/last chunk
    u_waits,        \* history: time.sleep(wait) calls of the current/last chunk
    u_posts,        \* history: the number of POSTs the call has issued
    \* ---- fetch_all_features (sitg_arcgis.py) ----
    page_size,        \* argument page_size
    include_geometry, \* argument include_geometry
    f_pc,             \* position: idle/count/page/returned/raised
    retry,            \* parameter retry of the running _get_json frame
    count,            \* count returned by get_record_count
    offsets,          \* list(range(0, count, page_size))
    page_num,         \* loop variable page_num (1-based)
    all_records,      \* accumulator all_records
    f_returned,       \* <<>> until fetch_all_features returns, then <<list>>
    f_requests,       \* history: one entry per _get_json call made by the fetch
    f_pages,          \* history: the feature list of each page received
    f_gets,           \* history: GETs issued for the latest _get_json call
    f_last,           \* history: the latest response received
    f_failures,       \* history: the failures of the latest _get_json call
    f_waits,          \* history: time.sleep(wait) calls of the latest call
    \* ---- two successive batch_upsert calls against one destination ----
    call,             \* 0: no destination modelled; 1, 2: which call is running
    dest_rows,        \* the rows of the destination table
    later_records,    \* argument records of the second call
    first_call,       \* history: records, return value and table of call 1
    target,           \* arguments table, conflict_column and schema
    posted,           \* history: endpoint and headers of every POST issued
    \* ---- the pipelines' main() (pipelines/*/import.py) ----
    job,              \* which import.py runs ("none": no job)
    j_pc,             \* position in main()
    configured,       \* destinations whose url and key are set in the environment
    dests,            \* the destinations list main() builds
    fetched,          \* the record list fetched for each dataset
    ds_idx,           \* loop index over datasets / cantons (1-based)
    dest_idx,         \* loop index over destinations (1-based)
    upsert_records,   \* the list handed to the latest batch_upsert call
    upserted,         \* value returned by the latest batch_upsert call
    rows_before,      \* simap: get_row_count read before the search
    row_check,        \* outcome of the latest before/after row count check
    flags,            \* main()'s success flags (primary_ok, all_ok, ...)
    exit_status,      \* <<>> while main() runs, then <<status>>
    decrease_seen,    \* history: some check found rows_after < rows_before
    zero_ack,         \* history: destinations a non-empty upsert returned 0 for
    geom_col,         \* geom_exists: the latest answer of has_column
    fetch_aborted,    \* history: some fetch of the run raised
    network_used,     \* history: some request went to a source or destination
    fetch_log,        \* history: the datasets fetched, in order
    upsert_log,       \* history: the batch_upsert calls (dataset, destination)
    \* ---- the field name and value transforms (shared/sitg_arcgis.py) ----
    p_fn,             \* the function called ("none": no call); in simap
                      \* the latest get_row_count
    p_arg,            \* its argument; of get_row_count, what its HEAD
                      \* request came to
    p_result          \* <<>> until it returns, then <<value>>

uvars == <<url, key, records, batch_size, u_pc, i, batch, attempt,
           total_upserted, u_returned, outcomes, u_responses, u_waits,
           u_posts>>
fvars == <<page_size, include_geometry, f_pc, retry, count, offsets, page_num,
           all_records, f_returned, f_requests, f_pages, f_gets, f_last,
           f_failures, f_waits>>
dvars == <<call, dest_rows, later_records, first_call, target, posted>>
jvars == <<job, j_pc, configured, dests, fetched, ds_idx, dest_idx,
           upsert_records,
           upserted, rows_before, row_check, flags, exit_status,
           decrease_seen, zero_ack,
           geom_col, fetch_aborted, network_used, fetch_log, upsert_log>>
pvars == <<p_fn, p_arg, p_result>>
vars == <<uvars, fvars, dvars, jvars, pvars>>

\* ---------------------------------------------------------------- bounds
MaxRecords == 4
MaxBatchSize == 2
MaxCount == 3
MaxPageSize == 2

\* ------------------------------------------------------------- utilities
Min(a, b) == IF a < b THEN a ELSE b

RECURSIVE SumSeq(_)
SumSeq(ns) == IF ns = <<>> THEN 0 ELSE Head(ns) + SumSeq(Tail(ns))

\* Python slice xs[lo:hi] for 0 <= lo <= hi (hi is clipped to len(xs)).
Slice(xs, lo, hi) == SubSeq(xs, lo + 1, Min(hi, Len(xs)))

\* Python list(range(0, stop, step)) for step >= 1.
RECURSIVE RangeFrom(_, _, _)
RangeFrom(start, stop, step) ==
    IF start >= stop THEN <<>>
    ELSE <<start>> \o RangeFrom(start + step, stop, step)

\* Mutant: range(0, stop + 1, step), the stop taken as inclusive.
PyRangeInclusive(stop, step) == RangeFrom(0, stop + 1, step)

PyRange(stop, step) == RangeFrom(0, stop, step)

\* ----------------------------------------------------------------------
\*                  shared/supabase_client.py
\* ----------------------------------------------------------------------
MAX_RETRIES == 3
RETRY_BACKOFF_BASE == 2

\* What one HTTP request can end in: a response with a status code, or an
\* exception of the requests library raised instead of a response.
\* (body: what the JSON of a successful GET holds; "none" when not read.)
Http(s) == [exc |-> "none", status |-> s, body |-> "none"]
Raised(e) == [exc |-> e, status |-> 0, body |-> "none"]
Json(b) == [exc |-> "none", status |-> 200, body |-> b]
NoResponse == [exc |-> "none", status |-> 0, body |-> "none"]

PostStatuses == {200, 201, 204, 400, 404, 429, 500, 503}
PostExceptions == {"Timeout", "ConnectionError"}
PostResponses ==
    {Http(s) : s \in PostStatuses} \cup {Raised(e) : e \in PostExceptions}

\* Mutant: the `except requests.exceptions.Timeout` clause is missing and
\* Timeout is not caught by the clause that follows.
DispositionTimeoutUncaught(r) ==
    IF r.exc = "ConnectionError" THEN "retry"
    ELSE IF r.exc # "none" THEN "raise"
    ELSE IF r.status \in {200, 201} THEN "return_len"
    ELSE IF r.status = 429 THEN "retry"
    ELSE IF r.status >= 500 THEN "retry"
    ELSE "return_0"

\* Mutant: every status from 400 up is retried.
DispositionRetryClientError(r) ==
    IF r.exc \in {"Timeout", "ConnectionError"} THEN "retry"
    ELSE IF r.exc # "none" THEN "raise"
    ELSE IF r.status \in {200, 201} THEN "return_len"
    ELSE IF r.status >= 400 THEN "retry"
    ELSE "return_0"

\* Mutant: a request that timed out is taken to have been applied, and
\* the chunk is counted.
DispositionTimeoutCounts(r) ==
    IF r.exc = "Timeout" THEN "return_len"
    ELSE IF r.exc = "ConnectionError" THEN "retry"
    ELSE IF r.exc # "none" THEN "raise"
    ELSE IF r.status \in {200, 201} THEN "return_len"
    ELSE IF r.status = 429 \/ r.status >= 500 THEN "retry"
    ELSE "return_0"

\* Mutant: only 201 counts as success and a 200 is tried again.
DispositionRetryOn200(r) ==
    IF r.exc \in {"Timeout", "ConnectionError"} THEN "retry"
    ELSE IF r.exc # "none" THEN "raise"
    ELSE IF r.status = 201 THEN "return_len"
    ELSE IF r.status \in {200, 429} THEN "retry"
    ELSE IF r.status >= 500 THEN "retry"
    ELSE "return_0"

\* The try/except and if/elif dispatch of _upsert_single_batch on one
\* response: which branch of the loop body runs.
Disposition(r) ==
    IF r.exc = "Timeout" THEN "retry"                 \* except Timeout
    ELSE IF r.exc = "ConnectionError" THEN "retry"    \* except RequestException
    ELSE IF r.exc # "none" THEN "raise"               \* no clause matches
    ELSE IF r.status \in {200, 201} THEN "return_len"
    ELSE IF r.status = 429 THEN "retry"
    ELSE IF r.status >= 500 THEN "retry"
    ELSE "return_0"

\* Mutant: a linear backoff, RETRY_BACKOFF_BASE * attempt.
UpsertWaitLinear(a) == RETRY_BACKOFF_BASE * a

\* wait = RETRY_BACKOFF_BASE ** attempt
UpsertWait(a) == RETRY_BACKOFF_BASE ^ a

\* Mutant: the loop ends after attempt MAX_RETRIES + 1.
LastAttemptLate(a) == a > MAX_RETRIES

\* Mutant: range(1, MAX_RETRIES + 2), one attempt too many.
LastAttemptOffByOne(a) == a >= MAX_RETRIES + 1

\* `for attempt in range(1, MAX_RETRIES + 1)` has no further iteration.
LastAttempt(a) == a >= MAX_RETRIES

\* Mutant: records[i : i + batch_size - 1], a chunk one record short.
ChunkShort(recs, off, size) == Slice(recs, off, off + size - 1)

\* records[i : i + batch_size]
Chunk(recs, off, size) == Slice(recs, off, off + size)

\* The count returned on a 200/201 response: len(records) of the chunk.
AckCount(b) == Len(b)

\* Mutant: `if not url`, the key is not looked at.
MissingConfigUrlOnly == url = ""

\* The guard `if not url or not key`.
MissingConfig == url = "" \/ key = ""

\* get_row_count's `return None` (the count is unknown).
Unknown == -1

NoFlags == [primary_ok |-> FALSE, all_ok |-> TRUE, lamap_ok |-> FALSE,
            any_failure |-> FALSE, failed_cantons |-> <<>>]

NoCall == [records |-> <<>>, returned |-> <<>>, dest_rows |-> <<>>]
NoTarget == [table |-> "", conflict_column |-> "", schema |-> ""]

PureIdle ==
    /\ p_fn = "none"
    /\ p_arg = <<>>
    /\ p_result = <<>>

DestIdle ==
    /\ call = 0
    /\ dest_rows = <<>>
    /\ later_records = <<>>
    /\ first_call = NoCall
    /\ target = NoTarget
    /\ posted = {}

JobIdle ==
    /\ job = "none"
    /\ j_pc = "idle"
    /\ configured = {}
    /\ dests = <<>>
    /\ fetched = <<>>
    /\ ds_idx = 0
    /\ dest_idx = 0
    /\ upsert_records = <<>>
    /\ upserted = 0
    /\ rows_before = Unknown
    /\ row_check = "none"
    /\ flags = NoFlags
    /\ exit_status = <<>>
    /\ decrease_seen = FALSE
    /\ zero_ack = {}
    /\ geom_col = FALSE
    /\ fetch_aborted = FALSE
    /\ network_used = FALSE
    /\ fetch_log = <<>>
    /\ upsert_log = <<>>

FetchIdle ==
    /\ page_size = 0
    /\ include_geometry = FALSE
    /\ f_pc = "idle"
    /\ retry = 0
    /\ count = 0
    /\ offsets = <<>>
    /\ page_num = 0
    /\ all_records = <<>>
    /\ f_returned = <<>>
    /\ f_requests = <<>>
    /\ f_pages = <<>>
    /\ f_gets = 0
    /\ f_last = NoResponse
    /\ f_failures = {}
    /\ f_waits = <<>>

InitUpsert ==
    /\ url \in {"", "https://x.supabase.co"}
    /\ key \in {"", "service_role"}
    /\ records \in {[j \in 1..n |-> j] : n \in 0..MaxRecords}
    /\ batch_size \in 1..MaxBatchSize
    /\ u_pc = "start"
    /\ i = 0
    /\ batch = <<>>
    /\ attempt = 0
    /\ total_upserted = 0
    /\ u_returned = <<>>
    /\ outcomes = <<>>
    /\ u_responses = <<>>
    /\ u_waits = <<>>
    /\ u_posts = 0
    /\ FetchIdle
    /\ DestIdle
    /\ JobIdle
    /\ PureIdle

\* batch_upsert, lines 92-100: the two guards, then the loop is entered.
UpsertEnter ==
    /\ u_pc = "start"
    /\ IF MissingConfig \/ Len(records) = 0
       THEN /\ u_returned' = <<0>>
            /\ u_pc' = "done"
       ELSE /\ u_returned' = u_returned
            /\ u_pc' = "loop"
    /\ total_upserted' = 0
    /\ i' = 0
    /\ UNCHANGED <<url, key, records, batch_size, batch, attempt, outcomes,
                   u_responses, u_waits, u_posts>>
    /\ UNCHANGED <<pvars, fvars, dvars, jvars>>

\* One iteration of the for loop starts: the chunk is cut and handed to
\* _upsert_single_batch, whose attempt loop starts at 1.
UpsertNextBatch ==
    /\ u_pc = "loop"
    /\ i < Len(records)
    /\ batch' = Chunk(records, i, batch_size)
    /\ attempt' = 1
    /\ u_responses' = <<>>
    /\ u_waits' = <<>>
    /\ u_pc' = "post"
    /\ UNCHANGED <<url, key, records, batch_size, i, total_upserted,
                   u_returned, outcomes, u_posts>>
    /\ UNCHANGED <<pvars, fvars, dvars, jvars>>

\* Mutant: `total_upserted = count` instead of `total_upserted += count`.
ChunkDoneOverwrite(c, st) ==
    /\ total_upserted' = c
    /\ outcomes' = Append(outcomes, [batch |-> batch, count |-> c, status |-> st])
    /\ i' = i + batch_size
    /\ u_pc' = "loop"
    /\ attempt' = attempt

\* _upsert_single_batch returned c: lines 106-111 of batch_upsert, and the
\* loop variable moves to the next offset.
ChunkDone(c, st) ==
    /\ total_upserted' = total_upserted + c
    /\ outcomes' = Append(outcomes, [batch |-> batch, count |-> c, status |-> st])
    /\ i' = i + batch_size
    /\ u_pc' = "loop"
    /\ attempt' = attempt

\* One pass through the body of the attempt loop: the POST, its response
\* r and the branch taken on it.
PostOutcome(r) ==
    LET d == Disposition(r) IN
    /\ u_responses' = Append(u_responses, r)
    /\ u_posts' = u_posts + 1
    /\ CASE d = "return_len" ->
              /\ ChunkDone(AckCount(batch), "ACKNOWLEDGED")
              /\ u_waits' = u_waits
         [] d = "return_0" ->
              /\ ChunkDone(0, "FAILED")
              /\ u_waits' = u_waits
         [] d = "retry" ->
              \* time.sleep(wait), then the next iteration, or line 71-72
              /\ u_waits' = Append(u_waits, UpsertWait(attempt))
              /\ IF LastAttempt(attempt)
                 THEN ChunkDone(0, "FAILED")
                 ELSE /\ attempt' = attempt + 1
                      /\ UNCHANGED <<total_upserted, outcomes, i, u_pc>>
         [] OTHER ->
              \* an exception no except clause matches leaves batch_upsert
              /\ u_pc' = "raised"
              /\ UNCHANGED <<total_upserted, outcomes, i, attempt, u_waits>>

UpsertPost ==
    /\ u_pc = "post"
    /\ \E r \in PostResponses : PostOutcome(r)
    /\ UNCHANGED <<url, key, records, batch_size, batch, u_returned>>
    /\ UNCHANGED <<pvars, fvars, dvars, jvars>>

\* The for loop is exhausted: `return total_upserted`.
UpsertReturn ==
    /\ u_pc = "loop"
    /\ i >= Len(records)
    /\ u_returned' = <<total_upserted>>
    /\ u_pc' = "done"
    /\ UNCHANGED <<url, key, records, batch_size, i, batch, attempt,
                   total_upserted, outcomes, u_responses, u_waits, u_posts>>
    /\ UNCHANGED <<pvars, fvars, dvars, jvars>>

NextUpsert == UpsertEnter \/ UpsertNextBatch \/ UpsertPost \/ UpsertReturn

SpecUpsert == InitUpsert /\ [][NextUpsert]_vars

\* ----------------------------------------------------------------------
\*   batch_upsert called twice against a destination that merges on
\*   conflict.  The destination is a table of rows [key, val] whose
\*   conflict column is `key`; it answers each POST from what the
\*   request asks for and what the table holds.
\* ----------------------------------------------------------------------
MaxKeys == 2
Vals == {"a", "b"}

\* Mutant: the Prefer header is not sent (a plain insert).
PreferHeaderMissing == ""

\* Mutant: the other resolution PostgREST knows.
PreferHeaderIgnore == "resolution=ignore-duplicates"

\* _build_headers, line 30.
PreferHeader == "resolution=merge-duplicates"

\* The values of the arguments table, conflict_column and schema.
Targets ==
    [table : {"servitudes"}, conflict_column : {"key"},
     schema : {"", "public", "bronze"}]

\* Mutant: the schema header is set whenever a schema is given.
BuildHeadersProfileForPublic(k, schema) ==
    [h \in {"apikey", "Authorization", "Content-Type", "Prefer"}
            \cup (IF schema # "" THEN {"Content-Profile"} ELSE {}) |->
        IF h = "apikey" THEN k
        ELSE IF h = "Authorization" THEN "Bearer " \o k
        ELSE IF h = "Content-Type" THEN "application/json"
        ELSE IF h = "Prefer" THEN PreferHeader
        ELSE schema]

\* _build_headers, lines 24-35.
_build_headers(k, schema) ==
    [h \in {"apikey", "Authorization", "Content-Type", "Prefer"}
            \cup (IF schema # "" /\ schema # "public"
                  THEN {"Content-Profile"} ELSE {}) |->
        IF h = "apikey" THEN k
        ELSE IF h = "Authorization" THEN "Bearer " \o k
        ELSE IF h = "Content-Type" THEN "application/json"
        ELSE IF h = "Prefer" THEN PreferHeader
        ELSE schema]

\* endpoint, line 40: {url}/rest/v1/{table}?on_conflict={conflict_column}.
Endpoint ==
    [base |-> url, path |-> <<"rest", "v1", target.table>>,
     on_conflict |-> target.conflict_column]

\* The POST of one chunk (line 46): the endpoint, the headers of
\* _build_headers, json=records.
UpsertRequest(b) ==
    [endpoint |-> Endpoint, headers |-> _build_headers(key, target.schema),
     body |-> b]

\* The POST is issued.
Posted(req) ==
    posted' = posted \cup {[endpoint |-> req.endpoint, headers |-> req.headers]}

HasKey(rows, k) == \E n \in DOMAIN rows : rows[n].key = k

\* INSERT ... ON CONFLICT (key) DO UPDATE, row by row.
RECURSIVE MergeRows(_, _)
MergeRows(rows, body) ==
    IF body = <<>> THEN rows
    ELSE LET r == Head(body)
             merged == IF HasKey(rows, r.key)
                       THEN [n \in DOMAIN rows |->
                               IF rows[n].key = r.key THEN r ELSE rows[n]]
                       ELSE Append(rows, r)
         IN  MergeRows(merged, Tail(body))

\* INSERT ... ON CONFLICT DO NOTHING.
IgnoreRows(rows, body) ==
    rows \o SelectSeq(body, LAMBDA r : ~HasKey(rows, r.key))

\* A plain INSERT violates the unique constraint.
Conflicts(rows, body) == \E n \in DOMAIN body : HasKey(rows, body[n].key)

\* The status the destination answers a request with.
DestAnswer(rows, req) ==
    IF req.headers["Prefer"] \in {"resolution=merge-duplicates",
                                  "resolution=ignore-duplicates"}
        THEN Http(201)
    ELSE IF Conflicts(rows, req.body) THEN Http(409)
    ELSE Http(201)

\* The table after the request.
DestApply(rows, req) ==
    IF req.headers["Prefer"] = "resolution=merge-duplicates"
        THEN MergeRows(rows, req.body)
    ELSE IF req.headers["Prefer"] = "resolution=ignore-duplicates"
        THEN IgnoreRows(rows, req.body)
    ELSE IF Conflicts(rows, req.body) THEN rows
    ELSE rows \o req.body

\* Record lists with one record per key, in key order.
KeyedLists ==
    UNION { { [j \in 1..n |-> [key |-> ks[j], val |-> vs[j]]]
              : ks \in {f \in [1..n -> 1..MaxKeys] :
                           \A a, b \in 1..n : a < b => f[a] < f[b]},
                vs \in [1..n -> Vals] }
            : n \in 0..MaxKeys }

InitRepeat ==
    /\ url \in {"", "https://x.supabase.co"}
    /\ key = "service_role"
    /\ records \in KeyedLists
    /\ later_records \in KeyedLists
    /\ batch_size \in 1..MaxBatchSize
    /\ dest_rows \in {<<>>, <<[key |-> 1, val |-> "old"]>>}
    /\ call = 1
    /\ first_call = NoCall
    /\ target \in Targets
    /\ posted = {}
    /\ u_pc = "start"
    /\ i = 0
    /\ batch = <<>>
    /\ attempt = 0
    /\ total_upserted = 0
    /\ u_returned = <<>>
    /\ outcomes = <<>>
    /\ u_responses = <<>>
    /\ u_waits = <<>>
    /\ u_posts = 0
    /\ FetchIdle
    /\ JobIdle
    /\ PureIdle

\* One pass through the body of the attempt loop when the destination is
\* the table: the POST is answered and applied by DestAnswer/DestApply.
UpsertPostDest ==
    /\ u_pc = "post"
    /\ LET req == UpsertRequest(batch) IN
         /\ PostOutcome(DestAnswer(dest_rows, req))
         /\ dest_rows' = DestApply(dest_rows, req)
         /\ Posted(req)
    /\ UNCHANGED <<url, key, records, batch_size, batch, u_returned>>
    /\ UNCHANGED <<call, later_records, first_call, target>>
    /\ UNCHANGED <<pvars, fvars, jvars>>

\* The caller calls batch_upsert again, with later_records.
CallAgain ==
    /\ call = 1
    /\ u_pc = "done"
    /\ first_call' = [records |-> records, returned |-> u_returned,
                      dest_rows |-> dest_rows]
    /\ call' = 2
    /\ records' = later_records
    /\ u_pc' = "start"
    /\ i' = 0
    /\ batch' = <<>>
    /\ attempt' = 0
    /\ total_upserted' = 0
    /\ u_returned' = <<>>
    /\ outcomes' = <<>>
    /\ u_responses' = <<>>
    /\ u_waits' = <<>>
    /\ u_posts' = 0
    /\ UNCHANGED <<url, key, batch_size, dest_rows, later_records, target,
                   posted>>
    /\ UNCHANGED <<pvars, fvars, jvars>>

NextRepeat ==
    UpsertEnter \/ UpsertNextBatch \/ UpsertPostDest \/ UpsertReturn
        \/ CallAgain

SpecRepeat == InitRepeat /\ [][NextRepeat]_vars

\* ----------------------------------------------------------------------
\*                  shared/sitg_arcgis.py
\* ----------------------------------------------------------------------
ARCGIS_MAX_RETRIES == 5
RETRY_BACKOFF == 2

\* What makes the try block of _get_json raise: raise_for_status on a
\* 4xx/5xx status, or an exception of requests.get.  (`except Exception`
\* treats every exception alike, the one r.json() raises on a body that
\* is not JSON included; that one has no representative of its own here.)
GetFailures ==
    {Http(s) : s \in {400, 429, 500}}
        \cup {Raised(e) : e \in {"Timeout", "ConnectionError"}}

\* Mutant: the `if retry >= MAX_RETRIES: raise` test is missing.
GetJsonExhaustedNever(r) == FALSE

\* Mutant: `if retry > MAX_RETRIES: raise`.
GetJsonExhaustedLate(r) == r > ARCGIS_MAX_RETRIES

\* `if retry >= MAX_RETRIES: raise`
GetJsonExhausted(r) == r >= ARCGIS_MAX_RETRIES

\* wait = RETRY_BACKOFF ** (retry + 1)
GetWait(r) == RETRY_BACKOFF ^ (r + 1)

\* A feature of a page: its id, whether `attributes` is non-empty and
\* whether it carries `geometry` (not read when attributes is empty).
FeatureKinds ==
    { [attributes |-> FALSE, geometry |-> FALSE],
      [attributes |-> TRUE,  geometry |-> FALSE],
      [attributes |-> TRUE,  geometry |-> TRUE] }

\* The non-empty feature lists a page query at offset off can return.
PageFeatures(off) ==
    UNION { { [j \in 1..k |-> [id |-> off + j,
                               attributes |-> fk[j].attributes,
                               geometry |-> fk[j].geometry]]
              : fk \in [1..k -> FeatureKinds] }
            : k \in 1..page_size }

\* Mutant: the `if not attrs: continue` check is missing.
PageRecordsKeepAll(features) ==
    [j \in 1..Len(features) |->
        [id |-> features[j].id,
         geometry |-> include_geometry /\ features[j].geometry]]

\* Mutant: the geometry is attached whatever include_geometry says.
PageRecordsGeometryAlways(features) ==
    LET kept == SelectSeq(features, LAMBDA f : f.attributes) IN
    [j \in 1..Len(kept) |->
        [id |-> kept[j].id, geometry |-> kept[j].geometry]]

\* Lines 157-171: the records appended for the features of one page.
PageRecords(features) ==
    LET kept == SelectSeq(features, LAMBDA f : f.attributes) IN
    [j \in 1..Len(kept) |->
        [id |-> kept[j].id, geometry |-> include_geometry /\ kept[j].geometry]]

\* The request the running _get_json call is for.
\* (offset: resultOffset, limit: resultRecordCount; 0 for the count query.)
CurrentRequest ==
    IF f_pc = "count" THEN [kind |-> "count", offset |-> 0, limit |-> 0]
    ELSE [kind |-> "page", offset |-> offsets[page_num], limit |-> page_size]

\* History of one requests.get: a call of _get_json with retry = 0 is a
\* new request of the fetch, a call with retry > 0 repeats the latest one.
IssueGet(resp) ==
    /\ f_last' = resp
    /\ f_gets' = IF retry = 0 THEN 1 ELSE f_gets + 1
    /\ f_requests' = IF retry = 0 THEN Append(f_requests, CurrentRequest)
                     ELSE f_requests

PriorWaits == IF retry = 0 THEN <<>> ELSE f_waits
PriorFailures == IF retry = 0 THEN {} ELSE f_failures

UpsertIdle ==
    /\ url = ""
    /\ key = ""
    /\ records = <<>>
    /\ batch_size = 0
    /\ u_pc = "idle"
    /\ i = 0
    /\ batch = <<>>
    /\ attempt = 0
    /\ total_upserted = 0
    /\ u_returned = <<>>
    /\ outcomes = <<>>
    /\ u_responses = <<>>
    /\ u_waits = <<>>
    /\ u_posts = 0

InitFetch ==
    /\ page_size \in 1..MaxPageSize
    /\ include_geometry \in BOOLEAN
    /\ f_pc = "count"
    /\ retry = 0
    /\ count = 0
    /\ offsets = <<>>
    /\ page_num = 0
    /\ all_records = <<>>
    /\ f_returned = <<>>
    /\ f_requests = <<>>
    /\ f_pages = <<>>
    /\ f_gets = 0
    /\ f_last = NoResponse
    /\ f_failures = {}
    /\ f_waits = <<>>
    /\ UpsertIdle
    /\ DestIdle
    /\ JobIdle
    /\ PureIdle

\* Mutant: the page loop catches the exhausted request and breaks, so the
\* pages fetched so far are returned.
GetFailsReturnsPartial ==
    /\ f_pc \in {"count", "page"}
    /\ \E e \in GetFailures :
         /\ IssueGet(e)
         /\ f_failures' = PriorFailures \cup {e}
    /\ IF GetJsonExhausted(retry)
       THEN /\ f_pc' = "returned"
            /\ f_returned' = <<all_records>>
            /\ retry' = retry
            /\ f_waits' = PriorWaits
       ELSE /\ f_pc' = f_pc
            /\ f_returned' = f_returned
            /\ retry' = retry + 1
            /\ f_waits' = Append(PriorWaits, GetWait(retry))
    /\ UNCHANGED <<page_size, include_geometry, count, offsets, page_num,
                   all_records, f_pages>>
    /\ UNCHANGED <<pvars, uvars, dvars, jvars>>

\* _get_json, lines 80-86: the try block raised.
GetFails ==
    /\ f_pc \in {"count", "page"}
    /\ \E e \in GetFailures :
         /\ IssueGet(e)
         /\ f_failures' = PriorFailures \cup {e}
    /\ IF GetJsonExhausted(retry)
       THEN \* `raise`: the exception leaves _get_json and fetch_all_features
            /\ f_pc' = "raised"
            /\ retry' = retry
            /\ f_waits' = PriorWaits
       ELSE \* sleep, then `return _get_json(url, retry=retry + 1)`
            /\ f_pc' = f_pc
            /\ retry' = retry + 1
            /\ f_waits' = Append(PriorWaits, GetWait(retry))
    /\ UNCHANGED <<page_size, include_geometry, count, offsets, page_num,
                   all_records, f_returned, f_pages>>
    /\ UNCHANGED <<pvars, uvars, dvars, jvars>>

\* A GET that succeeded: _get_json returns the JSON to its caller.
GetSucceeds(body) ==
    /\ IssueGet(Json(body))
    /\ f_failures' = PriorFailures
    /\ f_waits' = PriorWaits
    /\ retry' = 0

\* Mutant: get_record_count tests `if not count` instead of
\* `if count is None`, so a count of 0 raises RuntimeError.
CountOkZeroRaises ==
    /\ f_pc = "count"
    /\ \E c \in 0..MaxCount :
         /\ count' = c
         /\ IF c = 0
            THEN /\ f_pc' = "raised"
                 /\ UNCHANGED <<offsets, page_num, f_returned>>
            ELSE /\ offsets' = PyRange(c, page_size)
                 /\ page_num' = 1
                 /\ f_pc' = "page"
                 /\ f_returned' = f_returned
    /\ GetSucceeds("count")
    /\ UNCHANGED <<page_size, include_geometry, all_records, f_pages>>
    /\ UNCHANGED <<pvars, uvars, dvars, jvars>>

\* get_record_count returns c; lines 125-134 of fetch_all_features.
CountOk ==
    /\ f_pc = "count"
    /\ \E c \in 0..MaxCount :
         /\ count' = c
         /\ IF c = 0
            THEN /\ f_returned' = << <<>> >>
                 /\ f_pc' = "returned"
                 /\ UNCHANGED <<offsets, page_num>>
            ELSE /\ offsets' = PyRange(c, page_size)
                 /\ page_num' = 1
                 /\ f_pc' = "page"
                 /\ f_returned' = f_returned
    /\ GetSucceeds("count")
    /\ UNCHANGED <<page_size, include_geometry, all_records, f_pages>>
    /\ UNCHANGED <<pvars, uvars, dvars, jvars>>

\* get_record_count, lines 98-101: the JSON holds no count: RuntimeError.
CountMissing ==
    /\ f_pc = "count"
    /\ GetSucceeds("no_count")
    /\ f_pc' = "raised"
    /\ UNCHANGED <<page_size, include_geometry, count, offsets, page_num,
                   all_records, f_returned, f_pages>>
    /\ UNCHANGED <<pvars, uvars, dvars, jvars>>

\* Mutant: the `if "error" in data` check is missing: the error payload
\* has no features, so the loop breaks and the list is returned.
PageErrorIgnored ==
    /\ f_pc = "page"
    /\ GetSucceeds("error")
    /\ f_pc' = "returned"
    /\ f_returned' = <<all_records>>
    /\ UNCHANGED <<page_size, include_geometry, count, offsets, page_num,
                   all_records, f_pages>>
    /\ UNCHANGED <<pvars, uvars, dvars, jvars>>

\* Lines 147-151: the page holds an error object: RuntimeError.
PageError ==
    /\ f_pc = "page"
    /\ GetSucceeds("error")
    /\ f_pc' = "raised"
    /\ UNCHANGED <<page_size, include_geometry, count, offsets, page_num,
                   all_records, f_returned, f_pages>>
    /\ UNCHANGED <<pvars, uvars, dvars, jvars>>

\* Mutant: `continue` instead of `break` on an empty page.
PageEmptyContinues ==
    /\ f_pc = "page"
    /\ GetSucceeds("empty")
    /\ f_pages' = Append(f_pages, <<>>)
    /\ IF page_num = Len(offsets)
       THEN /\ f_pc' = "returned"
            /\ f_returned' = <<all_records>>
            /\ page_num' = page_num
       ELSE /\ f_pc' = "page"
            /\ f_returned' = f_returned
            /\ page_num' = page_num + 1
    /\ UNCHANGED <<page_size, include_geometry, count, offsets, all_records>>
    /\ UNCHANGED <<pvars, uvars, dvars, jvars>>

\* Lines 153-155 and 179-180: no features: break, and the list is returned.
PageEmpty ==
    /\ f_pc = "page"
    /\ GetSucceeds("empty")
    /\ f_pc' = "returned"
    /\ f_returned' = <<all_records>>
    /\ f_pages' = Append(f_pages, <<>>)
    /\ UNCHANGED <<page_size, include_geometry, count, offsets, page_num,
                   all_records>>
    /\ UNCHANGED <<pvars, uvars, dvars, jvars>>

\* Lines 157-180: the page's records are appended; the loop goes on to the
\* next offset, or ends and the list is returned.
PageOk ==
    /\ f_pc = "page"
    /\ GetSucceeds("features")
    /\ \E features \in PageFeatures(offsets[page_num]) :
         /\ all_records' = all_records \o PageRecords(features)
         /\ f_pages' = Append(f_pages, features)
    /\ IF page_num = Len(offsets)
       THEN /\ f_pc' = "returned"
            /\ f_returned' = <<all_records'>>
            /\ page_num' = page_num
       ELSE /\ f_pc' = "page"
            /\ f_returned' = f_returned
            /\ page_num' = page_num + 1
    /\ UNCHANGED <<page_size, include_geometry, count, offsets>>
    /\ UNCHANGED <<pvars, uvars, dvars, jvars>>

NextFetch ==
    GetFails \/ CountOk \/ CountMissing \/ PageError \/ PageEmpty \/ PageOk

SpecFetch == InitFetch /\ [][NextFetch]_vars

\* ----------------------------------------------------------------------
\*                  pipelines/*/import.py : main()
\* A behaviour is one run of one job.  The sources and the destinations
\* are the environment: a fetch returns any small record list or raises,
\* get_row_count returns any count or None, has_column any boolean and
\* batch_upsert any count it can return for the list it is given.
\* A record is a function from its keys to its values; the value None
\* is written "null".
\* ----------------------------------------------------------------------
MaxFetched == 2
MaxRows == 1
MaxCantons == 2

Jobs == {"simap", "sitg_servitudes", "sitg_authorizations",
         "sitg_urban_programs", "zefix"}

\* The jobs that write to a required destination and to optional ones.
MultiDestinationJobs == {"sitg_servitudes", "sitg_authorizations", "zefix"}

\* The required destination of a job.
Primary(j) == IF j = "zefix" THEN "camelote_data" ELSE "lamap_db"

\* The optional destinations of a job, in the order main() handles them.
Optional(j) ==
    IF j = "zefix" THEN <<"lamap", "yooneet">>
    ELSE IF j \in {"sitg_servitudes", "sitg_authorizations"} THEN <<"yooneet">>
    ELSE <<>>

BuildDestinationsOptionalFirst(j) ==
    SelectSeq(Optional(j), LAMBDA n : n \in configured) \o <<Primary(j)>>

\* build_destinations: the primary first, then the configured optional ones.
BuildDestinations(j) ==
    <<Primary(j)>> \o SelectSeq(Optional(j), LAMBDA n : n \in configured)

\* DATASETS of sitg_authorizations and of sitg_urban_programs (table names).
AuthorizationsDatasets == <<"SIT_AUTOR_DOSSIER", "SIT_AUTOR_OBJET">>
UrbanDatasets ==
    <<"SIT_PROG_DENS", "OLS_LOGEMENT_SUBV", "SIT_SURELEVATION_BATIMENT">>

\* ALL_CANTONS, cut to its first MaxCantons entries.
ALL_CANTONS ==
    <<"AG", "AI", "AR", "BE", "BL", "BS", "FR", "GE", "GL", "GR",
      "JU", "LU", "NE", "NW", "OW", "SG", "SH", "SO", "SZ", "TG",
      "TI", "UR", "VD", "VS", "ZG", "ZH">>
Cantons == SubSeq(ALL_CANTONS, 1, Min(MaxCantons, Len(ALL_CANTONS)))

EXCLUDE_FIELDS == {"iteration"}

Ids == <<"id1", "id2", "id3", "id4">>

\* {k: v for k, v in r.items() if k not in ks}; also r.pop(k, None).
Without(r, ks) == [k \in DOMAIN r \ ks |-> r[k]]

\* A record of fetch_all_features(include_geometry=True): the layer's
\* attributes, and the key 'geometry' when the feature carried geometry.
SitgRecord(id, geom) ==
    [k \in {"objectid", "nom", "iteration"}
            \cup (IF geom THEN {"geometry"} ELSE {}) |->
        IF k = "objectid" THEN id
        ELSE IF k = "geometry" THEN "{rings}"
        ELSE "v"]

\* A publication as parse_publication returns it: optional fields are None.
SimapParsed(id, titled) ==
    [k \in {"project_number", "publication_number", "title"} |->
        IF k = "title" THEN (IF titled THEN "v" ELSE "null") ELSE id]

\* serialise_record: the keys whose value is None are left out.
serialise_record(r) == [k \in {f \in DOMAIN r : r[f] # "null"} |-> r[k]]

\* A row of parse_csv: always the same keys.
ZefixRecord(id) == [k \in {"uid", "name", "canton"} |-> IF k = "uid" THEN id ELSE "v"]

\* The record lists a source can deliver to a job.
SourceLists(j) ==
    UNION { { [n \in 1..len |->
                IF j = "zefix" THEN ZefixRecord(Ids[n])
                ELSE IF j = "simap"
                    THEN serialise_record(SimapParsed(Ids[n], kind[n]))
                ELSE SitgRecord(Ids[n], kind[n])]
              : kind \in [1..len -> IF j = "zefix" THEN {TRUE} ELSE BOOLEAN] }
            : len \in 0..MaxFetched }

\* The outcomes of a fetch: it raises, or returns a list.
FetchResults(j) ==
    {[raised |-> TRUE, records |-> <<>>]}
        \cup {[raised |-> FALSE, records |-> l] : l \in SourceLists(j)}

\* The content-range headers of a HEAD response, each as the list
\* cr.split("/"): no header (the default ""), a header without "/", a
\* well-formed "0-0/TOTAL" or "*/TOTAL", and headers whose second part is
\* not a number.
ContentRanges ==
    {<<"">>, <<"0-0">>, <<"*", "*">>, <<"0-0", "">>}
        \cup {<<r, ToString(n)>> : r \in {"0-0", "*"}, n \in 0..MaxRows}

\* What requests.head of get_row_count comes to: it raises, or it returns
\* a response with a content-range header.
Probes ==
    {[exc |-> e, cr |-> <<"">>] : e \in {"Timeout", "ConnectionError"}}
        \cup {[exc |-> "none", cr |-> h] : h \in ContentRanges}

\* int(s) returns for a decimal numeral and raises ValueError otherwise.
IsDecimal(s) == \E n \in 0..MaxRows : ToString(n) = s

DecimalValue(s) == CHOOSE n \in 0..MaxRows : ToString(n) = s

\* Mutant: a response without a usable header counts as an empty table.
RowCountOfZeroWithoutHeader(p) ==
    IF p.exc # "none" THEN Unknown
    ELSE IF Len(p.cr) < 2 THEN 0
    ELSE IF IsDecimal(p.cr[2]) THEN DecimalValue(p.cr[2])
    ELSE 0

\* get_row_count on one outcome of its HEAD request: the try block, its
\* `except Exception` and the final `return None`.
RowCountOf(p) ==
    IF p.exc # "none" THEN Unknown                \* requests.head raised
    ELSE IF Len(p.cr) < 2 THEN Unknown            \* "/" not in cr
    ELSE IF IsDecimal(p.cr[2]) THEN DecimalValue(p.cr[2])
    ELSE Unknown                                  \* int() raised ValueError

\* History: the call of get_row_count that met the outcome p.
ProbeIssued(p) ==
    /\ p_fn' = "get_row_count"
    /\ p_arg' = p
    /\ p_result' = <<RowCountOf(p)>>

\* The values get_row_count can return.
RowCounts == {RowCountOf(p) : p \in Probes}

\* The values batch_upsert can return for a list: the acknowledged chunks'
\* lengths add up to anything from 0 to len(records).
UpsertReturns(recs) == 0..Len(recs)

\* The before/after check of a job:
\* `if rows_before is not None and rows_after is not None:
\*      if rows_after < rows_before:`
RowCheck(before, after) ==
    IF before = Unknown \/ after = Unknown THEN "skipped"
    ELSE IF after < before THEN "decreased"
    ELSE "passed"

\* The outcomes of the check over the counts the two probes can return.
RowChecks == {RowCheck(b, a) : b \in RowCounts, a \in RowCounts}

\* [{k: v ... if k != "geometry"} for r in records]
StripGeometry(recs) ==
    [n \in DOMAIN recs |-> Without(recs[n], {"geometry"})]

\* `if geom_exists: upsert_records = records`, else the list without the
\* key 'geometry' (sitg_servitudes 187-193, sitg_urban_programs 162-168).
GeometryChoice(recs, geom_exists) ==
    IF geom_exists THEN recs ELSE StripGeometry(recs)

\* for r in records: for f in EXCLUDE_FIELDS: r.pop(f, None)
PopExcluded(recs) ==
    [n \in DOMAIN recs |-> Without(recs[n], EXCLUDE_FIELDS)]

InitJobs ==
    /\ job \in Jobs
    /\ j_pc = "start"
    /\ configured \in SUBSET ({Primary(job)} \cup
                              {Optional(job)[n] : n \in DOMAIN Optional(job)})
    /\ dests = <<>>
    /\ fetched = <<>>
    /\ ds_idx = 0
    /\ dest_idx = 0
    /\ upsert_records = <<>>
    /\ upserted = 0
    /\ rows_before = Unknown
    /\ row_check = "none"
    /\ flags = NoFlags
    /\ exit_status = <<>>
    /\ decrease_seen = FALSE
    /\ zero_ack = {}
    /\ geom_col = FALSE
    /\ fetch_aborted = FALSE
    /\ network_used = FALSE
    /\ fetch_log = <<>>
    /\ upsert_log = <<>>
    /\ UpsertIdle
    /\ FetchIdle
    /\ DestIdle
    /\ PureIdle

\* sys.exit(status), a return from main() (status 0) or an exception
\* nothing catches (status 1).
Exit(status) ==
    /\ exit_status' = <<status>>
    /\ j_pc' = "exited"

\* rows_before = get_row_count(...); upserted = batch_upsert(records=recs);
\* rows_after = get_row_count(...); the decrease check.  (The two counts
\* are locals of the iteration: the state keeps the outcome of the check.)
UpsertAndCount(recs, name) ==
    /\ upsert_records' = recs
    /\ upserted' \in UpsertReturns(recs)
    /\ row_check' \in RowChecks
    /\ decrease_seen' = (decrease_seen \/ row_check' = "decreased")
    /\ zero_ack' = IF upserted' = 0 THEN zero_ack \cup {name} ELSE zero_ack
    /\ rows_before' = rows_before

\* Mutant: `work_records = records`, the destination works on the fetched
\* dicts themselves.
FetchedAfterWorkInPlace(recs, work) == work

\* work_records = [dict(r) for r in records] (sitg_authorizations, line
\* 183): the fetched list after a destination has shaped its copy.
FetchedAfterWork(recs, work) == recs

\* Mutant: `if upserted < len(records)`, a partial upsert counts as failed.
UpsertFailedWhenPartial(n, recs) == n < Len(recs)

\* `if upserted == 0:` after the upsert of the list recs
\* (sitg_servitudes 220, sitg_authorizations 254, sitg_urban_programs 195).
UpsertFailed(n, recs) == n = 0

\* The variables UpsertAndCount sets.
counted == <<upsert_records, upserted, rows_before, row_check,
             decrease_seen, zero_ack>>

\* The variables that record what went over the network.
traced == <<geom_col, fetch_aborted, network_used, fetch_log, upsert_log>>

RequiredMissingNever == FALSE

\* `if not url or not key: ... sys.exit(1)`: the check of the required
\* destination every main() (or its build_destinations) starts with.
RequiredMissing == Primary(job) \notin configured

\* The identifiers of the records of a list, in order.
IdsOf(recs) ==
    [n \in DOMAIN recs |->
        IF "uid" \in DOMAIN recs[n] THEN recs[n].uid
        ELSE IF "objectid" \in DOMAIN recs[n] THEN recs[n].objectid
        ELSE recs[n].project_number]

\* The fetch of dataset k was issued; res is what came of it.
FetchIssued(k, res) ==
    /\ fetch_log' = Append(fetch_log, [ds |-> k, ids |-> IdsOf(res.records)])
    /\ fetch_aborted' = (fetch_aborted \/ res.raised)
    /\ network_used' = TRUE

\* batch_upsert was called with the records of dataset k for a destination.
UpsertIssued(k, name) ==
    /\ upsert_log' = Append(upsert_log, [ds |-> k, dest |-> name,
                                         ids |-> IdsOf(upsert_records')])
    /\ network_used' = TRUE

\* ---- sitg_servitudes ----
\* main, lines 144-170: build_destinations (which exits when the required
\* destination is not configured), the fetch, the excluded fields.
ServitudesFetch ==
    /\ job = "sitg_servitudes"
    /\ j_pc = "start"
    /\ IF RequiredMissing
       THEN /\ Exit(1)
            /\ UNCHANGED <<dests, fetched, dest_idx, flags>>
            /\ UNCHANGED traced
       ELSE /\ dests' = BuildDestinations(job)
            /\ \E res \in FetchResults(job) :
                 /\ FetchIssued(1, res)
                 /\ IF res.raised
                    THEN Exit(1) /\ UNCHANGED <<fetched, dest_idx, flags>>
                    ELSE IF res.records = <<>>
                    THEN Exit(0) /\ UNCHANGED <<fetched, dest_idx, flags>>
                    ELSE /\ fetched' = <<PopExcluded(res.records)>>
                         /\ flags' = [flags EXCEPT !.primary_ok = FALSE]
                         /\ dest_idx' = 1
                         /\ j_pc' = "dest"
                         /\ exit_status' = exit_status
            /\ UNCHANGED <<geom_col, upsert_log>>
    /\ UNCHANGED <<job, configured, ds_idx>>
    /\ UNCHANGED counted
    /\ UNCHANGED <<pvars, uvars, fvars, dvars>>

ServitudesDestRefetches ==
    /\ job = "sitg_servitudes"
    /\ j_pc = "dest"
    /\ dest_idx <= Len(dests)
    /\ geom_col' \in BOOLEAN
    /\ UpsertAndCount(GeometryChoice(fetched[1], geom_col'), dests[dest_idx])
    /\ UpsertIssued(1, dests[dest_idx])
    /\ FetchIssued(1, [raised |-> FALSE, records |-> fetched[1]])
    /\ flags' = IF ~UpsertFailed(upserted', upsert_records') /\ dest_idx = 1
                THEN [flags EXCEPT !.primary_ok = TRUE]
                ELSE flags
    /\ dest_idx' = dest_idx + 1
    /\ UNCHANGED <<job, j_pc, configured, dests, fetched, ds_idx, exit_status>>
    /\ UNCHANGED <<pvars, uvars, fvars, dvars>>

\* main, lines 172-223: one iteration of the loop over the destinations.
ServitudesDest ==
    /\ job = "sitg_servitudes"
    /\ j_pc = "dest"
    /\ dest_idx <= Len(dests)
    /\ geom_col' \in BOOLEAN
    /\ UpsertAndCount(GeometryChoice(fetched[1], geom_col'), dests[dest_idx])
    /\ UpsertIssued(1, dests[dest_idx])
    /\ flags' = IF ~UpsertFailed(upserted', upsert_records') /\ dest_idx = 1
                THEN [flags EXCEPT !.primary_ok = TRUE]
                ELSE flags
    /\ dest_idx' = dest_idx + 1
    /\ UNCHANGED <<job, j_pc, configured, dests, fetched, ds_idx, exit_status>>
    /\ UNCHANGED <<fetch_aborted, fetch_log>>
    /\ UNCHANGED <<pvars, uvars, fvars, dvars>>

\* main, lines 225-231: `if not primary_ok: sys.exit(1)`.
ServitudesExit ==
    /\ job = "sitg_servitudes"
    /\ j_pc = "dest"
    /\ dest_idx > Len(dests)
    /\ Exit(IF flags.primary_ok THEN 0 ELSE 1)
    /\ UNCHANGED <<job, configured, dests, fetched, ds_idx, dest_idx, flags>>
    /\ UNCHANGED counted
    /\ UNCHANGED traced
    /\ UNCHANGED <<pvars, uvars, fvars, dvars>>

\* ---- sitg_authorizations ----
\* The column sets get_table_columns can return (set() when the table is
\* empty or the probe fails).
KnownColumns ==
    { {}, {"objectid", "nom", "geometry"}, {"objectid", "nom"} }

\* What the two probes of one destination table can answer together:
\* get_table_columns lists 'geometry' only for a table has_column can find
\* it in, unless has_column itself fails and answers False.
ColumnProbes ==
    { p \in [known_cols : KnownColumns, geom_exists : BOOLEAN] :
        p.geom_exists => (p.known_cols = {} \/ "geometry" \in p.known_cols) }

\* filter_to_known_columns, called when known_cols is not empty.
filter_to_known_columns(recs, known_columns, exclude) ==
    IF known_columns = {}
    THEN [n \in DOMAIN recs |-> Without(recs[n], exclude)]
    ELSE [n \in DOMAIN recs |->
            [k \in DOMAIN recs[n] \cap (known_columns \ exclude)
                |-> recs[n][k]]]

\* Mutant: all_keys is taken from the first record only.
NormaliseKeysFromFirst(recs) ==
    LET all_keys == IF recs = <<>> THEN {} ELSE DOMAIN recs[1] IN
    [n \in DOMAIN recs |->
        [k \in all_keys \cup DOMAIN recs[n] |->
            IF k \in DOMAIN recs[n] THEN recs[n][k] ELSE "null"]]

\* process_destination, lines 218-223: every record gets every key of
\* the list, None where it had none.
NormaliseKeys(recs) ==
    LET all_keys == UNION {DOMAIN recs[n] : n \in DOMAIN recs} IN
    [n \in DOMAIN recs |->
        [k \in all_keys |->
            IF k \in DOMAIN recs[n] THEN recs[n][k] ELSE "null"]]

\* process_destination, lines 183-223: the list sent for one dataset.
WorkRecords(recs, known_cols, geom_exists) ==
    LET popped == PopExcluded(recs)
        filtered == IF known_cols # {}
                    THEN filter_to_known_columns(popped, known_cols,
                                                 EXCLUDE_FIELDS)
                    ELSE popped
        keep == geom_exists /\ filtered # <<>>
                    /\ "geometry" \in DOMAIN filtered[1]
    IN  NormaliseKeys(IF keep THEN filtered ELSE StripGeometry(filtered))

\* main, lines 267-300: the configuration check, then every dataset is
\* fetched; a fetch that raises counts as an empty list.
AuthorizationsFetch ==
    /\ job = "sitg_authorizations"
    /\ j_pc = "start"
    /\ IF RequiredMissing
       THEN /\ Exit(1)
            /\ UNCHANGED <<dests, fetched, ds_idx, dest_idx, flags>>
            /\ UNCHANGED traced
       ELSE /\ dests' = BuildDestinations(job)
            /\ \E res \in [DOMAIN AuthorizationsDatasets -> FetchResults(job)] :
                 /\ SumSeq([n \in DOMAIN res |-> Len(res[n].records)])
                        <= MaxFetched
                 /\ fetched' = [n \in DOMAIN AuthorizationsDatasets |->
                                  IF res[n].raised THEN <<>>
                                  ELSE res[n].records]
                 /\ fetch_log' = fetch_log \o
                        [n \in DOMAIN AuthorizationsDatasets |->
                            [ds |-> n, ids |-> IdsOf(res[n].records)]]
                 /\ fetch_aborted' = \E n \in DOMAIN res : res[n].raised
                 /\ network_used' = TRUE
            /\ flags' = [flags EXCEPT !.all_ok = TRUE]
            /\ dest_idx' = 1
            /\ ds_idx' = 1
            /\ j_pc' = "dataset"
            /\ exit_status' = exit_status
            /\ UNCHANGED <<geom_col, upsert_log>>
    /\ UNCHANGED <<job, configured>>
    /\ UNCHANGED counted
    /\ UNCHANGED <<pvars, uvars, fvars, dvars>>

\* process_destination, lines 168-256: one iteration of the loop over the
\* datasets, for the destination dests[dest_idx].
AuthorizationsDataset ==
    /\ job = "sitg_authorizations"
    /\ j_pc = "dataset"
    /\ ds_idx <= Len(fetched)
    /\ IF fetched[ds_idx] = <<>>
       THEN /\ UNCHANGED counted
            /\ UNCHANGED traced
            /\ flags' = flags
       ELSE /\ \E p \in ColumnProbes :
                 /\ geom_col' = p.geom_exists
                 /\ UpsertAndCount(WorkRecords(fetched[ds_idx], p.known_cols,
                                               p.geom_exists),
                                   dests[dest_idx])
            /\ UpsertIssued(ds_idx, dests[dest_idx])
            /\ UNCHANGED <<fetch_aborted, fetch_log>>
            /\ flags' = IF UpsertFailed(upserted', upsert_records')
                        THEN [flags EXCEPT !.all_ok = FALSE]
                        ELSE flags
    /\ fetched' = IF fetched[ds_idx] = <<>> THEN fetched
                  ELSE [fetched EXCEPT
                          ![ds_idx] = FetchedAfterWork(@, upsert_records')]
    /\ ds_idx' = ds_idx + 1
    /\ UNCHANGED <<job, j_pc, configured, dests, dest_idx, exit_status>>
    /\ UNCHANGED <<pvars, uvars, fvars, dvars>>

\* process_destination returns all_ok (line 258) to main, lines 303-315:
\* it is lamap_ok for the first destination and only logged for yooneet.
AuthorizationsDestDone ==
    /\ job = "sitg_authorizations"
    /\ j_pc = "dataset"
    /\ ds_idx > Len(fetched)
    /\ flags' = [flags EXCEPT
                   !.lamap_ok = IF dest_idx = 1 THEN flags.all_ok ELSE @,
                   !.all_ok = TRUE]
    /\ IF dest_idx < Len(dests)
       THEN /\ dest_idx' = dest_idx + 1
            /\ ds_idx' = 1
            /\ j_pc' = j_pc
       ELSE /\ j_pc' = "final"
            /\ UNCHANGED <<dest_idx, ds_idx>>
    /\ UNCHANGED <<job, configured, dests, fetched, exit_status>>
    /\ UNCHANGED counted
    /\ UNCHANGED traced
    /\ UNCHANGED <<pvars, uvars, fvars, dvars>>

\* main, lines 317-324: `if not lamap_ok: sys.exit(1)`.
AuthorizationsExit ==
    /\ job = "sitg_authorizations"
    /\ j_pc = "final"
    /\ Exit(IF flags.lamap_ok THEN 0 ELSE 1)
    /\ UNCHANGED <<job, configured, dests, fetched, ds_idx, dest_idx, flags>>
    /\ UNCHANGED counted
    /\ UNCHANGED traced
    /\ UNCHANGED <<pvars, uvars, fvars, dvars>>

\* ---- sitg_urban_programs ----
\* main, lines 110-124: the configuration check.
UrbanStart ==
    /\ job = "sitg_urban_programs"
    /\ j_pc = "start"
    /\ IF RequiredMissing
       THEN /\ Exit(1)
            /\ UNCHANGED <<dests, ds_idx, flags>>
       ELSE /\ dests' = BuildDestinations(job)
            /\ flags' = [flags EXCEPT !.any_failure = FALSE]
            /\ ds_idx' = 1
            /\ j_pc' = "dataset"
            /\ exit_status' = exit_status
    /\ UNCHANGED <<job, configured, fetched, dest_idx>>
    /\ UNCHANGED counted
    /\ UNCHANGED traced
    /\ UNCHANGED <<pvars, uvars, fvars, dvars>>

\* main, lines 126-197: one iteration of the loop over DATASETS.
UrbanDataset ==
    /\ job = "sitg_urban_programs"
    /\ j_pc = "dataset"
    /\ ds_idx <= Len(UrbanDatasets)
    /\ \E res \in FetchResults(job) :
         /\ FetchIssued(ds_idx, res)
         /\ IF res.raised
            THEN /\ flags' = [flags EXCEPT !.any_failure = TRUE]
                 /\ UNCHANGED fetched
                 /\ UNCHANGED counted
                 /\ UNCHANGED <<geom_col, upsert_log>>
            ELSE IF res.records = <<>>
            THEN /\ UNCHANGED <<flags, fetched>>
                 /\ UNCHANGED counted
                 /\ UNCHANGED <<geom_col, upsert_log>>
            ELSE /\ fetched' = <<PopExcluded(res.records)>>
                 /\ geom_col' \in BOOLEAN
                 /\ UpsertAndCount(GeometryChoice(fetched'[1], geom_col'),
                                   dests[1])
                 /\ UpsertIssued(ds_idx, dests[1])
                 /\ flags' = IF UpsertFailed(upserted', upsert_records')
                             THEN [flags EXCEPT !.any_failure = TRUE]
                             ELSE flags
    /\ ds_idx' = ds_idx + 1
    /\ UNCHANGED <<job, j_pc, configured, dests, dest_idx, exit_status>>
    /\ UNCHANGED <<pvars, uvars, fvars, dvars>>

\* main, lines 199-204: `if any_failure: sys.exit(1)`.
UrbanExit ==
    /\ job = "sitg_urban_programs"
    /\ j_pc = "dataset"
    /\ ds_idx > Len(UrbanDatasets)
    /\ Exit(IF flags.any_failure THEN 1 ELSE 0)
    /\ UNCHANGED <<job, configured, dests, fetched, ds_idx, dest_idx, flags>>
    /\ UNCHANGED counted
    /\ UNCHANGED traced
    /\ UNCHANGED <<pvars, uvars, fvars, dvars>>

\* ---- simap ----
\* main, lines 375-447: the configuration check, the row count before,
\* the search (get_cookies and search_projects raise what _get raises),
\* the details of each project (an error skips the project).
SimapFetch ==
    /\ job = "simap"
    /\ j_pc = "start"
    /\ IF RequiredMissing
       THEN /\ Exit(1)
            /\ UNCHANGED <<dests, fetched, rows_before>>
            /\ UNCHANGED traced
            /\ UNCHANGED pvars
       ELSE /\ dests' = BuildDestinations(job)
            /\ \E p \in Probes :
                 /\ ProbeIssued(p)
                 /\ rows_before' = RowCountOf(p)
            /\ \E res \in FetchResults(job) :
                 /\ FetchIssued(1, res)
                 /\ IF res.raised
                    THEN Exit(1) /\ UNCHANGED fetched
                    ELSE IF res.records = <<>>
                    THEN Exit(0) /\ UNCHANGED fetched
                    ELSE /\ fetched' = <<res.records>>
                         /\ j_pc' = "upsert"
                         /\ exit_status' = exit_status
            /\ UNCHANGED <<geom_col, upsert_log>>
    /\ UNCHANGED <<job, configured, ds_idx, dest_idx, flags>>
    /\ UNCHANGED <<upsert_records, upserted, row_check, decrease_seen,
                   zero_ack>>
    /\ UNCHANGED <<uvars, fvars, dvars>>

\* main, lines 449-477: the upsert, the row count after, and
\* `if rows_after < rows_before: sys.exit(1)`.
SimapUpsert ==
    /\ job = "simap"
    /\ j_pc = "upsert"
    /\ upsert_records' = fetched[1]
    /\ upserted' \in UpsertReturns(fetched[1])
    /\ \E p \in Probes :
         /\ ProbeIssued(p)
         /\ row_check' = RowCheck(rows_before, RowCountOf(p))
    /\ decrease_seen' = (row_check' = "decreased")
    /\ zero_ack' = IF upserted' = 0 THEN {dests[1]} ELSE {}
    /\ UpsertIssued(1, dests[1])
    /\ Exit(IF row_check' = "decreased" THEN 1 ELSE 0)
    /\ UNCHANGED <<job, configured, dests, fetched, ds_idx, dest_idx,
                   rows_before, flags>>
    /\ UNCHANGED <<geom_col, fetch_aborted, fetch_log>>
    /\ UNCHANGED <<uvars, fvars, dvars>>

\* ---- zefix ----
\* main, lines 192-211: build_destinations and the check of the primary.
ZefixStart ==
    /\ job = "zefix"
    /\ j_pc = "start"
    /\ IF RequiredMissing
       THEN /\ Exit(1)
            /\ UNCHANGED <<dests, ds_idx, flags>>
       ELSE /\ dests' = BuildDestinations(job)
            /\ flags' = [flags EXCEPT !.failed_cantons = <<>>]
            /\ ds_idx' = 1
            /\ j_pc' = "canton"
            /\ exit_status' = exit_status
    /\ UNCHANGED <<job, configured, fetched, dest_idx>>
    /\ UNCHANGED counted
    /\ UNCHANGED traced
    /\ UNCHANGED <<pvars, uvars, fvars, dvars>>

\* Mutant: a failed download ends the loop over the cantons.
ZefixCantonStopsOnFailure ==
    /\ job = "zefix"
    /\ j_pc = "canton"
    /\ ds_idx <= Len(Cantons)
    /\ \E res \in FetchResults(job) :
         /\ FetchIssued(ds_idx, res)
         /\ IF res.raised
            THEN /\ flags' = [flags EXCEPT !.failed_cantons =
                                             Append(@, Cantons[ds_idx])]
                 /\ ds_idx' = Len(Cantons) + 1
                 /\ UNCHANGED <<fetched, dest_idx, j_pc>>
            ELSE IF res.records = <<>>
            THEN /\ ds_idx' = ds_idx + 1
                 /\ UNCHANGED <<flags, fetched, dest_idx, j_pc>>
            ELSE /\ fetched' = <<res.records>>
                 /\ dest_idx' = 1
                 /\ j_pc' = "dest"
                 /\ UNCHANGED <<flags, ds_idx>>
    /\ UNCHANGED <<job, configured, dests, exit_status>>
    /\ UNCHANGED counted
    /\ UNCHANGED <<geom_col, upsert_log>>
    /\ UNCHANGED <<pvars, uvars, fvars, dvars>>

\* import_canton, lines 171-184, and main, lines 213-216: the download
\* and the parse of one canton.
ZefixCanton ==
    /\ job = "zefix"
    /\ j_pc = "canton"
    /\ ds_idx <= Len(Cantons)
    /\ \E res \in FetchResults(job) :
         /\ FetchIssued(ds_idx, res)
         /\ IF res.raised
            THEN /\ flags' = [flags EXCEPT !.failed_cantons =
                                             Append(@, Cantons[ds_idx])]
                 /\ ds_idx' = ds_idx + 1
                 /\ UNCHANGED <<fetched, dest_idx, j_pc>>
            ELSE IF res.records = <<>>
            THEN /\ ds_idx' = ds_idx + 1
                 /\ UNCHANGED <<flags, fetched, dest_idx, j_pc>>
            ELSE /\ fetched' = <<res.records>>
                 /\ dest_idx' = 1
                 /\ j_pc' = "dest"
                 /\ UNCHANGED <<flags, ds_idx>>
    /\ UNCHANGED <<job, configured, dests, exit_status>>
    /\ UNCHANGED counted
    /\ UNCHANGED <<geom_col, upsert_log>>
    /\ UNCHANGED <<pvars, uvars, fvars, dvars>>

\* upsert_to_destinations, lines 149-161: one destination; after the last
\* one import_canton returns and main goes on to the next canton.
ZefixDest ==
    /\ job = "zefix"
    /\ j_pc = "dest"
    /\ upsert_records' = fetched[1]
    /\ upserted' \in UpsertReturns(fetched[1])
    /\ zero_ack' = IF upserted' = 0 THEN zero_ack \cup {dests[dest_idx]}
                   ELSE zero_ack
    /\ UpsertIssued(ds_idx, dests[dest_idx])
    /\ IF dest_idx < Len(dests)
       THEN /\ dest_idx' = dest_idx + 1
            /\ UNCHANGED <<ds_idx, j_pc>>
       ELSE /\ ds_idx' = ds_idx + 1
            /\ j_pc' = "canton"
            /\ dest_idx' = dest_idx
    /\ UNCHANGED <<job, configured, dests, fetched, rows_before, row_check,
                   flags, exit_status, decrease_seen>>
    /\ UNCHANGED <<geom_col, fetch_aborted, fetch_log>>
    /\ UNCHANGED <<pvars, uvars, fvars, dvars>>

\* main, lines 222-234: `if failed_cantons: sys.exit(1)`.
ZefixExit ==
    /\ job = "zefix"
    /\ j_pc = "canton"
    /\ ds_idx > Len(Cantons)
    /\ Exit(IF flags.failed_cantons # <<>> THEN 1 ELSE 0)
    /\ UNCHANGED <<job, configured, dests, fetched, ds_idx, dest_idx, flags>>
    /\ UNCHANGED counted
    /\ UNCHANGED traced
    /\ UNCHANGED <<pvars, uvars, fvars, dvars>>

NextJobs ==
    \/ ServitudesFetch \/ ServitudesDest \/ ServitudesExit
    \/ AuthorizationsFetch \/ AuthorizationsDataset
    \/ AuthorizationsDestDone \/ AuthorizationsExit
    \/ UrbanStart \/ UrbanDataset \/ UrbanExit
    \/ SimapFetch \/ SimapUpsert
    \/ ZefixStart \/ ZefixCanton \/ ZefixDest \/ ZefixExit

SpecJobs == InitJobs /\ [][NextJobs]_vars

\* ----------------------------------------------------------------------
\*   A job's row counts around one batch_upsert call (sitg_servitudes
\*   main, lines 180-218) when the destination is the table and requests
\*   and answers can be lost on the way.
\* ----------------------------------------------------------------------
\* What can become of one POST: the table applies it and answers; the
\* table applies it and the answer is lost (the client times out); the
\* request fails before the table applies anything (one response of each
\* kind: rejected, server error, no answer).
Deliveries(rows, req) ==
    {[response |-> DestAnswer(rows, req), rows |-> DestApply(rows, req)]}
        \cup {[response |-> Raised("Timeout"), rows |-> DestApply(rows, req)]}
        \cup {[response |-> r, rows |-> rows]
                : r \in {Http(400), Http(500), Raised("Timeout")}}

\* The tables the call can meet.
OldTables ==
    {[n \in 1..len |-> [key |-> n, val |-> "old"]] : len \in 0..MaxKeys}

\* Mutant: a failed probe counts as an empty table.
GetRowCountZeroOnFailure(rows) == {0, Len(rows)}

\* get_row_count against the table: the number of rows, or None when the
\* probe fails.
get_row_count(rows) == {Unknown, Len(rows)}

InitLossy ==
    /\ url \in {"", "https://x.supabase.co"}
    /\ key = "service_role"
    /\ records \in KeyedLists
    /\ later_records = <<>>
    /\ batch_size \in 1..MaxBatchSize
    /\ dest_rows \in OldTables
    /\ call = 1
    /\ first_call = NoCall
    /\ target \in {t \in Targets : t.schema # "public"}
    /\ posted = {}
    /\ u_pc = "start"
    /\ i = 0
    /\ batch = <<>>
    /\ attempt = 0
    /\ total_upserted = 0
    /\ u_returned = <<>>
    /\ outcomes = <<>>
    /\ u_responses = <<>>
    /\ u_waits = <<>>
    /\ u_posts = 0
    /\ FetchIdle
    /\ job = "none"
    /\ j_pc = "idle"
    /\ configured = {}
    /\ dests = <<>>
    /\ fetched = <<>>
    /\ ds_idx = 0
    /\ dest_idx = 0
    /\ upsert_records = <<>>
    /\ upserted = 0
    /\ rows_before \in get_row_count(dest_rows)
    /\ row_check = "none"
    /\ flags = NoFlags
    /\ exit_status = <<>>
    /\ decrease_seen = FALSE
    /\ zero_ack = {}
    /\ geom_col = FALSE
    /\ fetch_aborted = FALSE
    /\ network_used = FALSE
    /\ fetch_log = <<>>
    /\ upsert_log = <<>>
    /\ PureIdle

\* One pass through the body of the attempt loop: the POST meets one of
\* its fates.
UpsertPostLossy ==
    /\ u_pc = "post"
    /\ \E d \in Deliveries(dest_rows, UpsertRequest(batch)) :
         /\ PostOutcome(d.response)
         /\ dest_rows' = d.rows
    /\ Posted(UpsertRequest(batch))
    /\ UNCHANGED <<url, key, records, batch_size, batch, u_returned>>
    /\ UNCHANGED <<call, later_records, first_call, target>>
    /\ UNCHANGED <<pvars, fvars, jvars>>

\* rows_after = get_row_count(...) and the check of lines 209-218.
CountAfter ==
    /\ u_pc = "done"
    /\ row_check = "none"
    /\ upserted' = u_returned[1]
    /\ row_check' \in {RowCheck(rows_before, a) : a \in get_row_count(dest_rows)}
    /\ decrease_seen' = (row_check' = "decreased")
    /\ UNCHANGED <<job, j_pc, configured, dests, fetched, ds_idx, dest_idx,
                   upsert_records, rows_before, flags, exit_status, zero_ack>>
    /\ UNCHANGED traced
    /\ UNCHANGED <<pvars, uvars, fvars, dvars>>

NextLossy ==
    UpsertEnter \/ UpsertNextBatch \/ UpsertPostLossy \/ UpsertReturn
        \/ CountAfter

SpecLossy == InitLossy /\ [][NextLossy]_vars

\* ----------------------------------------------------------------------
\*   key_to_snake_case and format_value (shared/sitg_arcgis.py).
\*   A string is the sequence of its characters, each written as a token:
\*   "TAB" is the tab, "deg" the degree sign, "a_circ" and "A_circ" the
\*   letter a with a circumflex.
\* ----------------------------------------------------------------------
MaxLen == 4

\* re's \s in a str pattern: the Unicode whitespace characters.
IsSpace(c) == c \in {" ", "TAB"}

\* re's \w in a str pattern: the Unicode alphanumerics and the underscore.
\* The accented letters are among them, the degree sign is not.
IsWord(c) ==
    c \in {"N", "B", "A_circ", "n", "b", "a_circ", "a", "t", "i", "m", "e",
           "0", "1", "_"}

\* str.lower(), character by character.
LowerChar(c) ==
    IF c = "N" THEN "n"
    ELSE IF c = "B" THEN "b"
    ELSE IF c = "A_circ" THEN "a_circ"
    ELSE c

\* s.lstrip() and s.rstrip().
RECURSIVE LStrip(_)
LStrip(s) ==
    IF s # <<>> /\ IsSpace(Head(s)) THEN LStrip(Tail(s)) ELSE s

RECURSIVE RStrip(_)
RStrip(s) ==
    IF s # <<>> /\ IsSpace(s[Len(s)])
    THEN RStrip(SubSeq(s, 1, Len(s) - 1))
    ELSE s

\* re.sub(r"\s+", repl, s): every maximal run of whitespace becomes repl.
RECURSIVE SubSpaceRuns(_, _)
SubSpaceRuns(s, repl) ==
    IF s = <<>> THEN <<>>
    ELSE IF IsSpace(Head(s)) THEN repl \o SubSpaceRuns(LStrip(s), repl)
    ELSE <<Head(s)>> \o SubSpaceRuns(Tail(s), repl)

\* re.sub(r"[^\w\s]", "_", s): character by character.
SubNonWordNonSpace(s) ==
    [n \in DOMAIN s |->
        IF ~IsWord(s[n]) /\ ~IsSpace(s[n]) THEN "_" ELSE s[n]]

\* key_to_snake_case, lines 51-53.
key_to_snake_case(k) ==
    LET replaced == SubSpaceRuns(SubNonWordNonSpace(k), <<"_">>)
    IN  [n \in DOMAIN replaced |-> LowerChar(replaced[n])]

\* The values: None, a str, an int.
None == [kind |-> "none", str |-> <<>>, num |-> 0]
PyStr(s) == [kind |-> "str", str |-> s, num |-> 0]
PyInt(n) == [kind |-> "int", str |-> <<>>, num |-> n]

\* str(val) of a value that is not None.
Digits == <<"0", "1">>
Str(val) == IF val.kind = "int" THEN <<Digits[val.num + 1]>> ELSE val.str

FormatValueNoStrip(val) ==
    IF val.kind = "none" THEN None
    ELSE LET s == SubSpaceRuns(Str(val), <<" ">>)
         IN  IF s = <<>> THEN None ELSE PyStr(s)

\* format_value, lines 63-67.
format_value(val) ==
    IF val.kind = "none" THEN None
    ELSE LET s == LStrip(RStrip(SubSpaceRuns(Str(val), <<" ">>)))
         IN  IF s = <<>> THEN None ELSE PyStr(s)

\* The strings of at most MaxLen characters over an alphabet.
StringsOver(chars) == UNION {[1..len -> chars] : len \in 0..MaxLen}

\* The field name of the specification's example.
NBatiment ==
    <<"N", "deg", " ", "B", "a_circ", "t", "i", "m", "e", "n", "t">>

\* The field names and the values the transforms are called with.
KeyInputs ==
    StringsOver({"N", "b", "a_circ", "deg", "-", " ", "TAB", "_"})
        \cup {NBatiment}
ValueInputs ==
    {None} \cup {PyInt(n) : n \in 0..1}
        \cup {PyStr(s) : s \in StringsOver({"a", " ", "TAB"})}

\* Record lists whose records differ in their keys; a value can be None.
UnevenLists ==
    LET recs == UNION {[ks -> {"1", "2", "null"}] : ks \in SUBSET {"a", "b"}}
    IN  UNION {[1..len -> recs] : len \in 0..MaxFetched}

InitPure ==
    /\ \/ p_fn = "key_to_snake_case" /\ p_arg \in KeyInputs
       \/ p_fn = "format_value" /\ p_arg \in ValueInputs
       \/ p_fn = "normalise_keys" /\ p_arg \in UnevenLists
    /\ p_result = <<>>
    /\ UpsertIdle
    /\ FetchIdle
    /\ DestIdle
    /\ JobIdle

\* record[key_to_snake_case(k)] = ... (fetch_all_features, line 166).
CallKeyToSnakeCase ==
    /\ p_fn = "key_to_snake_case"
    /\ p_result = <<>>
    /\ p_result' = <<key_to_snake_case(p_arg)>>
    /\ UNCHANGED <<p_fn, p_arg>>
    /\ UNCHANGED <<uvars, fvars, dvars, jvars>>

\* ... = format_value(v) (fetch_all_features, line 166); the second call
\* is format_value applied to what the first call returned.
CallFormatValue ==
    /\ p_fn = "format_value"
    /\ Len(p_result) < 2
    /\ p_result' = IF p_result = <<>>
                   THEN <<format_value(p_arg)>>
                   ELSE Append(p_result, format_value(p_result[1]))
    /\ UNCHANGED <<p_fn, p_arg>>
    /\ UNCHANGED <<uvars, fvars, dvars, jvars>>

\* The key normalisation of process_destination (sitg_authorizations,
\* lines 215-223) on a list of its own.
CallNormaliseKeys ==
    /\ p_fn = "normalise_keys"
    /\ p_result = <<>>
    /\ p_result' = <<NormaliseKeys(p_arg)>>
    /\ UNCHANGED <<p_fn, p_arg>>
    /\ UNCHANGED <<uvars, fvars, dvars, jvars>>

NextPure == CallKeyToSnakeCase \/ CallFormatValue \/ CallNormaliseKeys

SpecPure == InitPure /\ [][NextPure]_vars

\* ----------------------------------------------------------------------
\* One run: a call of batch_upsert, or a call of fetch_all_features.
\* ----------------------------------------------------------------------
Init == InitUpsert \/ InitFetch

Next == NextUpsert \/ NextFetch

Spec == Init /\ [][Next]_vars

\* ----------------------------------------------------------------------
\*                  Properties of batch_upsert
\* ----------------------------------------------------------------------
RECURSIVE Concat(_)
Concat(ss) == IF ss = <<>> THEN <<>> ELSE Head(ss) \o Concat(Tail(ss))


Last(xs) == xs[Len(xs)]

\* The chunks that reached a terminal state, and those cut so far.
EndedChunks == [k \in 1..Len(outcomes) |-> outcomes[k].batch]
CutChunks == IF u_pc = "post" THEN Append(EndedChunks, batch) ELSE EndedChunks

\* batch_upsert passed its two guards and ran its loop to the end.
UpsertRanToEnd == u_pc = "done" /\ ~MissingConfig

\* The latest chunk has reached a terminal state (u_responses is its log).
ChunkEnded == u_pc \in {"loop", "done"} /\ Len(outcomes) > 0

\* The response classes of the retry policy.
IsTransient(r) ==
    \/ r.exc \in {"Timeout", "ConnectionError"}
    \/ r.exc = "none" /\ (r.status = 429 \/ r.status >= 500)
IsRejected(r) ==
    r.exc = "none" /\ r.status >= 400 /\ r.status < 500 /\ r.status # 429
IsSuccess2xx(r) == r.exc = "none" /\ r.status >= 200 /\ r.status < 300

\* C1: batch_upsert cuts the records into contiguous chunks in input order:
\* the chunks cut so far concatenate to a prefix of the input, each holds
\* between 1 and batch_size records, each but the last holds exactly
\* batch_size, and once the loop has ended the chunks concatenate to the
\* whole input and their number is ceil(len(records) / batch_size).
C1_ChunksPartitionInput ==
    LET cs == CutChunks
        flat == Concat(cs)
    IN  /\ flat = SubSeq(records, 1, Len(flat))
        /\ \A k \in DOMAIN cs : Len(cs[k]) >= 1 /\ Len(cs[k]) <= batch_size
        /\ \A k \in DOMAIN cs : k < Len(cs) => Len(cs[k]) = batch_size
        /\ UpsertRanToEnd =>
             /\ flat = records
             /\ Len(cs) * batch_size >= Len(records)
             /\ (Len(cs) - 1) * batch_size < Len(records)

\* C1 witness: a finished run that cut two chunks, the last one partial.
C1_Witness ==
    /\ UpsertRanToEnd
    /\ batch_size = 2
    /\ Len(outcomes) = 2
    /\ Len(outcomes[2].batch) = 1

\* Every chunk of the input was cut, sent and acknowledged.
EveryChunkAcknowledged ==
    /\ Concat(EndedChunks) = records
    /\ \A k \in DOMAIN outcomes : outcomes[k].status = "ACKNOWLEDGED"

\* C2: each chunk contributes its full length when acknowledged and 0 when
\* failed, the running total is the sum of these counts, and the value
\* returned is that sum: it lies between 0 and len(records) and equals
\* len(records) exactly when every chunk was acknowledged.
C2_ReturnIsSumOfChunkCounts ==
    LET counts == [k \in 1..Len(outcomes) |-> outcomes[k].count] IN
    /\ \A k \in DOMAIN outcomes :
         outcomes[k].count =
            IF outcomes[k].status = "ACKNOWLEDGED"
            THEN Len(outcomes[k].batch) ELSE 0
    /\ u_pc \in {"loop", "post"} => total_upserted = SumSeq(counts)
    /\ u_pc = "done" =>
         /\ u_returned = <<SumSeq(counts)>>
         /\ u_returned[1] >= 0
         /\ u_returned[1] <= Len(records)
         /\ (u_returned[1] = Len(records)) <=> EveryChunkAcknowledged

\* C2 witness: a finished run with an acknowledged chunk of two records, a
\* failed chunk, and a result strictly between 0 and len(records).
C2_Witness ==
    /\ UpsertRanToEnd
    /\ \E k \in DOMAIN outcomes :
         outcomes[k].status = "ACKNOWLEDGED" /\ outcomes[k].count = 2
    /\ \E k \in DOMAIN outcomes : outcomes[k].status = "FAILED"
    /\ u_returned[1] > 0
    /\ u_returned[1] < Len(records)

\* C3: a chunk that ends FAILED counts 0 rows and nothing is raised out of
\* batch_upsert; the loop goes on, so that at the end every chunk of the
\* input was submitted and the result is the total length of the
\* acknowledged chunks, those before a failed chunk included.
C3_FailedChunkIsolated ==
    LET acked == [k \in 1..Len(outcomes) |->
                    IF outcomes[k].status = "ACKNOWLEDGED"
                    THEN Len(outcomes[k].batch) ELSE 0]
    IN  /\ u_pc # "raised"
        /\ \A k \in DOMAIN outcomes :
             outcomes[k].status = "FAILED" => outcomes[k].count = 0
        /\ (ChunkEnded /\ Last(outcomes).status = "FAILED" /\ u_pc = "loop") =>
             /\ i = Len(outcomes) * batch_size
             /\ total_upserted = SumSeq(acked)
        /\ UpsertRanToEnd =>
             /\ Concat(EndedChunks) = records
             /\ u_returned = <<SumSeq(acked)>>

\* C3 witness: a finished run of three chunks: acknowledged, failed after
\* timeouts and network errors, acknowledged.
C3_Witness ==
    /\ UpsertRanToEnd
    /\ Len(outcomes) = 3
    /\ outcomes[1].status = "ACKNOWLEDGED"
    /\ outcomes[2].status = "FAILED"
    /\ outcomes[3].status = "ACKNOWLEDGED"
    /\ u_returned = <<2>>

\* C4: a chunk whose attempts all end in 429, a status >= 500, a timeout or
\* a network error gets exactly 3 POSTs and then ends FAILED with 0 rows:
\* never more than 3 POSTs, and it is not given up before the third.
C4_TransientChunkGetsThreePosts ==
    /\ Len(u_responses) <= 3
    /\ (u_responses # <<>> /\ \A j \in DOMAIN u_responses : IsTransient(u_responses[j])) =>
         IF ChunkEnded
         THEN /\ Len(u_responses) = 3
              /\ Last(outcomes).batch = batch
              /\ Last(outcomes).status = "FAILED"
              /\ Last(outcomes).count = 0
         ELSE /\ u_pc = "post"
              /\ Len(u_responses) < 3
              /\ attempt = Len(u_responses) + 1

\* C4 witness: a chunk that failed on a 429, then a timeout, then a 500.
C4_Witness ==
    /\ ChunkEnded
    /\ u_responses = <<Http(429), Raised("Timeout"), Http(500)>>

\* C5: a 4xx response other than 429 is the last response of its chunk: the
\* chunk ends FAILED with 0 rows at once and no further POST is issued for it.
C5_ClientErrorNotRetried ==
    \A j \in DOMAIN u_responses :
        IsRejected(u_responses[j]) =>
            /\ j = Len(u_responses)
            /\ ChunkEnded
            /\ Last(outcomes).batch = batch
            /\ Last(outcomes).status = "FAILED"
            /\ Last(outcomes).count = 0

\* C5 witness: a chunk rejected with 404 on its second attempt, after which
\* the next chunk is sent.
C5_Witness ==
    /\ u_pc = "loop"
    /\ i < Len(records)
    /\ u_responses = <<Http(503), Http(404)>>
    /\ Last(outcomes).count = 0

\* C6 (as claimed): any 2xx response ends its chunk ACKNOWLEDGED with
\* len(chunk) rows counted.
C6_Any2xxAcknowledges ==
    \A j \in DOMAIN u_responses :
        IsSuccess2xx(u_responses[j]) =>
            /\ j = Len(u_responses)
            /\ ChunkEnded
            /\ Last(outcomes).status = "ACKNOWLEDGED"
            /\ Last(outcomes).count = Len(batch)

\* ----------------------------------------------------------------------
\*                  Properties of _get_json and fetch_all_features
\* ----------------------------------------------------------------------
\* The latest request of the fetch is a page query (not the count query).
LatestIsPage == f_requests # <<>> /\ Last(f_requests).kind = "page"

\* Every attempt of the latest _get_json call so far failed, and each
\* failure was transient.
FailingTransiently ==
    /\ f_last \in GetFailures
    /\ \A e \in f_failures : IsTransient(e)

\* C7 (as claimed): a count or page request that fails transiently on
\* every attempt is attempted at most 5 times in total.
C7_AtMostFiveAttempts == FailingTransiently => f_gets <= 5

\* C7 (amended): a count or page request that fails transiently on every
\* attempt is attempted at most 6 times in total, the first attempt and 5
\* retries, and the failure propagates as fatal at the sixth failure, not
\* before.
C7_AtMostSixAttempts ==
    FailingTransiently =>
        /\ f_gets <= 6
        /\ f_pc = "raised" <=> f_gets = 6

\* C7 witness: a page request that failed six times, on server errors and
\* timeouts, and made the fetch raise.
C7_Witness ==
    /\ f_pc = "raised"
    /\ LatestIsPage
    /\ f_gets = 6
    /\ f_failures = {Http(500), Raised("Timeout")}

\* C8 (as claimed): no request is sent again after a 4xx response other
\* than 429: an upsert chunk ends with it, and a page query answered so
\* makes the fetch fail, after one request when it is the first answer.
C8_NoRetryAfterClientError ==
    /\ \A j \in DOMAIN u_responses :
         IsRejected(u_responses[j]) => j = Len(u_responses) /\ ChunkEnded
    /\ (LatestIsPage /\ IsRejected(f_last)) =>
         /\ f_pc = "raised"
         /\ f_failures = {f_last} => f_gets = 1

\* The transient responses among the POSTs of the current chunk.
TransientPosts == SelectSeq(u_responses, IsTransient)

\* C9: in _upsert_single_batch and in _get_json a wait follows each failed
\* attempt that is retried, and the k-th wait of a request is 2^k seconds
\* (2, 4, 8, ...), so the waits of one request are strictly increasing.
C9_BackoffDoubles ==
    /\ Len(u_waits) = Len(TransientPosts)
    /\ \A k \in DOMAIN u_waits : u_waits[k] = 2 ^ k
    /\ \A k \in DOMAIN u_waits : k > 1 => u_waits[k] > u_waits[k - 1]
    /\ (f_last \in GetFailures /\ f_pc # "raised") => Len(f_waits) = f_gets
    /\ Len(f_waits) <= f_gets
    /\ \A k \in DOMAIN f_waits : f_waits[k] = 2 ^ k
    /\ \A k \in DOMAIN f_waits : k > 1 => f_waits[k] > f_waits[k - 1]

\* C9 witness: a page request about to be sent for the sixth time, after
\* waits of 2, 4, 8, 16 and 32 seconds.
C9_Witness ==
    /\ f_pc = "page"
    /\ retry = 5
    /\ f_waits = <<2, 4, 8, 16, 32>>

\* C10: a page whose JSON holds an error object makes fetch_all_features
\* raise at once: nothing is returned and no request follows, neither for
\* that page nor for a later one.
C10_PageErrorAborts ==
    (LatestIsPage /\ f_last = Json("error")) =>
        /\ f_pc = "raised"
        /\ f_returned = <<>>
        /\ ~ENABLED NextFetch

\* C10 witness: the error object arrives for the second page, when records
\* of the first are already held and a third page is still to be fetched.
C10_Witness ==
    /\ LatestIsPage
    /\ f_last = Json("error")
    /\ Len(all_records) > 0
    /\ page_num = 2
    /\ Len(offsets) = 3

\* The page queries of the fetch, in the order they were first sent.
PageRequests == SelectSeq(f_requests, LAMBDA q : q.kind = "page")

\* The features received so far, page after page, and the ids of those
\* that have non-empty attributes.
ReceivedFeatures == Concat(f_pages)
KeptFeatures == SelectSeq(ReceivedFeatures, LAMBDA f : f.attributes)

\* C11: the page queries go to offsets 0, page_size, 2*page_size, ..., all
\* below the reported count, in ascending order, each with record limit
\* page_size; when the count is positive, no page is empty and the fetch
\* returns, there are exactly ceil(count / page_size) of them.
C11_PagePlan ==
    LET n == Len(PageRequests) IN
    /\ \A k \in DOMAIN PageRequests :
         /\ PageRequests[k].offset = (k - 1) * page_size
         /\ PageRequests[k].limit = page_size
         /\ PageRequests[k].offset < count
    /\ (f_pc = "returned" /\ count > 0
            /\ \A p \in DOMAIN f_pages : f_pages[p] # <<>>) =>
         /\ n * page_size >= count
         /\ (n - 1) * page_size < count

\* C11 witness: count 3 and page_size 2: two page queries, at 0 and 2,
\* both answered with features.
C11_Witness ==
    /\ f_pc = "returned"
    /\ count = 3
    /\ page_size = 2
    /\ Len(f_pages) = 2
    /\ f_pages[1] # <<>> /\ f_pages[2] # <<>>
    /\ PageRequests = <<[kind |-> "page", offset |-> 0, limit |-> 2],
                        [kind |-> "page", offset |-> 2, limit |-> 2]>>

\* C12: a page with an empty feature list ends the pagination: the fetch
\* returns normally the records of the pages before it, and no query for a
\* later offset is sent.
C12_EmptyPageEndsPagination ==
    (LatestIsPage /\ f_last = Json("empty")) =>
        /\ f_pc = "returned"
        /\ f_returned = <<all_records>>
        /\ Last(f_pages) = <<>>
        /\ [j \in 1..Len(all_records) |-> all_records[j].id]
              = [j \in 1..Len(KeptFeatures) |-> KeptFeatures[j].id]
        /\ Len(PageRequests) = Len(f_pages)
        /\ ~ENABLED NextFetch

\* C12 witness: the second of three planned pages is empty; the records of
\* the first page are returned.
C12_Witness ==
    /\ f_last = Json("empty")
    /\ Len(offsets) = 3
    /\ Len(PageRequests) = 2
    /\ f_returned # <<>>
    /\ Len(f_returned[1]) > 0

\* C13: when the count query reports zero, the fetch returns an empty list:
\* nothing is raised and no page query is sent.
C13_ZeroCountReturnsEmpty ==
    (f_last = Json("count") /\ count = 0) =>
        /\ f_pc = "returned"
        /\ f_returned = << <<>> >>
        /\ PageRequests = <<>>
        /\ ~ENABLED NextFetch

\* C13 witness: the count query, answered at its second attempt, reports 0.
C13_Witness ==
    /\ f_last = Json("count")
    /\ count = 0
    /\ f_gets = 2
    /\ f_pc = "returned"

\* C14: while a page query fails nothing is returned, and once its retries
\* are exhausted the fetch raises: no request follows and the records of
\* the pages fetched before are not returned.  A fetch that returned did
\* so on a response, never on a failure.
C14_ExhaustedPageRaises ==
    /\ (LatestIsPage /\ f_last \in GetFailures) =>
         /\ f_returned = <<>>
         /\ f_pc \in {"page", "raised"}
         /\ f_gets = ARCGIS_MAX_RETRIES + 1 =>
              f_pc = "raised" /\ ~ENABLED NextFetch
    /\ f_pc = "returned" => f_last \notin GetFailures

\* C14 witness: the second page fails for the sixth time when records of
\* the first page are held.
C14_Witness ==
    /\ LatestIsPage
    /\ f_last \in GetFailures
    /\ f_gets = 6
    /\ page_num = 2
    /\ Len(all_records) > 0
    /\ f_pc = "raised"

\* C15: the records held, and the list returned, are the features received
\* that have non-empty attributes, one record each and nothing else, pages
\* in request order and features in the order of their page.
C15_ReturnedListIsPagesInOrder ==
    /\ Len(all_records) = Len(KeptFeatures)
    /\ \A j \in DOMAIN all_records : all_records[j].id = KeptFeatures[j].id
    /\ \A p \in DOMAIN f_pages : \A j \in DOMAIN f_pages[p] :
         f_pages[p][j].id = PageRequests[p].offset + j
    /\ f_pc = "returned" => f_returned = <<all_records>>
    /\ f_pc # "returned" => f_returned = <<>>

\* C15 witness: two pages, three features, the second of them without
\* attributes: the records of features 1 and 3 are returned, in that order.
C15_Witness ==
    /\ f_pc = "returned"
    /\ Len(f_pages) = 2
    /\ Len(ReceivedFeatures) = 3
    /\ ~ReceivedFeatures[2].attributes
    /\ Len(f_returned[1]) = 2
    /\ f_returned[1][1].id = 1
    /\ f_returned[1][2].id = 3

\* ----------------------------------------------------------------------
\* Two successive calls against the merging destination (SpecRepeat).
\* ----------------------------------------------------------------------
SecondCallDone == call = 2 /\ u_pc = "done"

KeysOf(rows) == {rows[n].key : n \in DOMAIN rows}

RowsWithKey(rows, k) == {n \in DOMAIN rows : rows[n].key = k}

\* C16: when the second call is given the records of the first, the
\* destination table after the second call is the table after the first,
\* and both calls return the same count.
C16_SameRecordsTwice ==
    (SecondCallDone /\ records = first_call.records) =>
        /\ dest_rows = first_call.dest_rows
        /\ u_returned = first_call.returned

\* Both calls sent the same non-empty list in chunks and have returned.
C16_Witness ==
    /\ SecondCallDone
    /\ ~MissingConfig
    /\ records = first_call.records
    /\ Len(records) > batch_size
    /\ u_returned = <<Len(records)>>

\* C17: after two calls, every key of the second call's records has
\* exactly one row in the table and that row is the second call's
\* record; the second call adds rows only for keys the table did not
\* hold after the first call.
C17_SecondCallWins ==
    (SecondCallDone /\ ~MissingConfig) =>
        /\ \A n \in DOMAIN records :
             /\ Cardinality(RowsWithKey(dest_rows, records[n].key)) = 1
             /\ \E m \in DOMAIN dest_rows : dest_rows[m] = records[n]
        /\ Len(dest_rows) = Len(first_call.dest_rows)
              + Cardinality(KeysOf(records) \ KeysOf(first_call.dest_rows))

\* The two calls carried a record with the same key and different values.
C17_Witness ==
    /\ SecondCallDone
    /\ ~MissingConfig
    /\ \E n \in DOMAIN records, m \in DOMAIN first_call.records :
         /\ records[n].key = first_call.records[m].key
         /\ records[n].val # first_call.records[m].val
    /\ Len(dest_rows) = Len(first_call.dest_rows)

\* ----------------------------------------------------------------------
\* The jobs (SpecJobs).
\* ----------------------------------------------------------------------
Exited == j_pc = "exited"

ExitedNonZero == Exited /\ exit_status # <<0>>

\* C18: in every job, the records of every list handed to batch_upsert
\* all have the same key set.
C18_KeySetsUniform ==
    \A a, b \in DOMAIN upsert_records :
        DOMAIN upsert_records[a] = DOMAIN upsert_records[b]

\* Only upserts to optional destinations returned 0, and nothing else the
\* job counts as a failure happened.
OnlyOptionalFailed ==
    /\ zero_ack # {}
    /\ Primary(job) \notin zero_ack
    /\ flags.failed_cantons = <<>>

\* C19: a multi-destination job whose upsert to the required destination
\* returned 0 exits non-zero, and one in which only upserts to optional
\* destinations returned 0 exits with status 0.
C19_PrimaryFailureExitsNonZero ==
    (Exited /\ job \in MultiDestinationJobs) =>
        /\ Primary(job) \in zero_ack => ExitedNonZero
        /\ OnlyOptionalFailed => exit_status = <<0>>

\* C20: a job in which a before/after check found the row count lower
\* after the upsert exits non-zero.
C20_DecreaseExitsNonZero ==
    (Exited /\ decrease_seen) => ExitedNonZero
\* The jobs that read their source with fetch_all_features.
FetchJobs == {"sitg_servitudes", "sitg_authorizations", "sitg_urban_programs"}

\* C21: a job that uses fetch_all_features and in which the fetch of some
\* dataset raised exits with a non-zero status.
C21_FetchAbortExitsNonZero ==
    (Exited /\ job \in FetchJobs /\ fetch_aborted) => ExitedNonZero

\* C22: in every job, while the url or the key of the required destination
\* is missing no request goes to a source or a destination, main() does
\* nothing but exit, and it exits with a non-zero status.
C22_MissingConfigExitsBeforeRequests ==
    (job \in Jobs /\ Primary(job) \notin configured) =>
        /\ ~network_used
        /\ fetch_log = <<>> /\ upsert_log = <<>>
        /\ j_pc \in {"start", "exited"}
        /\ Exited => ExitedNonZero

C22_Witness ==
    /\ job \in Jobs /\ Primary(job) \notin configured
    /\ configured # {}
    /\ Exited /\ exit_status = <<1>>
    /\ ~network_used

\* C23: among the batch_upsert calls made for one record set, none to the
\* required destination comes after one to an optional destination.
C23_PrimaryBeforeOptional ==
    \A a, b \in DOMAIN upsert_log :
        (a < b /\ upsert_log[a].ds = upsert_log[b].ds
               /\ upsert_log[a].dest # Primary(job))
            => upsert_log[b].dest # Primary(job)

\* Two record sets were each sent to the required destination and then to
\* an optional one.
C23_Witness ==
    /\ Exited
    /\ \E k1, k2 \in {upsert_log[n].ds : n \in DOMAIN upsert_log} :
         /\ k1 # k2
         /\ \A k \in {k1, k2} :
              \E a, b \in DOMAIN upsert_log :
                 /\ a < b
                 /\ upsert_log[a].ds = k /\ upsert_log[b].ds = k
                 /\ upsert_log[a].dest = Primary(job)
                 /\ upsert_log[b].dest # Primary(job)

\* The number of source datasets of a job.
DatasetCount ==
    IF job = "sitg_authorizations" THEN Len(AuthorizationsDatasets)
    ELSE IF job = "sitg_urban_programs" THEN Len(UrbanDatasets)
    ELSE IF job = "zefix" THEN Len(Cantons)
    ELSE 1

\* The run went through every dataset: main() was neither stopped by the
\* configuration check nor by an exception of the servitudes fetch.
RanThrough ==
    Exited /\ ~RequiredMissing /\ ~(job = "sitg_servitudes" /\ fetch_aborted)

\* C24: in a multi-destination job no dataset is fetched twice, a run
\* that went through has fetched every dataset once, and every
\* batch_upsert call carries the records of the one fetch of its dataset.
C24_EachDatasetFetchedOnce ==
    job \in MultiDestinationJobs =>
        /\ \A a, b \in DOMAIN fetch_log :
              fetch_log[a].ds = fetch_log[b].ds => a = b
        /\ RanThrough =>
              [n \in DOMAIN fetch_log |-> fetch_log[n].ds]
                  = [n \in 1..DatasetCount |-> n]
        /\ \A u \in DOMAIN upsert_log :
              \E f \in DOMAIN fetch_log :
                 /\ fetch_log[f].ds = upsert_log[u].ds
                 /\ fetch_log[f].ids = upsert_log[u].ids

\* A run with two destinations that sent a fetched list to both, one call
\* returning 0 and the run still going through every dataset.
C24_Witness ==
    /\ job \in MultiDestinationJobs
    /\ RanThrough
    /\ zero_ack # {}
    /\ \E a, b \in DOMAIN upsert_log :
         /\ upsert_log[a].ds = upsert_log[b].ds
         /\ upsert_log[a].dest # upsert_log[b].dest
         /\ Len(upsert_log[a].ids) = MaxFetched
\* C25: against a table that only merges what it is sent, the row count
\* never falls below the count read before batch_upsert, whatever becomes
\* of each POST, and the job's check never finds a decrease.
C25_RowCountNeverDecreases ==
    /\ rows_before # Unknown => Len(dest_rows) >= rows_before
    /\ row_check # "decreased"
    /\ ~decrease_seen

\* Both counts were read around a call in which one chunk was applied
\* with its answer lost and retried, one failed and one was acknowledged.
C25_Witness ==
    /\ row_check = "passed"
    /\ \E k \in DOMAIN outcomes : outcomes[k].status = "FAILED"
    /\ \E k \in DOMAIN outcomes : outcomes[k].status = "ACKNOWLEDGED"
    /\ Len(u_waits) > 0
    /\ Len(dest_rows) > rows_before
    /\ rows_before > 0
\* The maximal runs of characters that are not whitespace, in order.
RECURSIVE Words(_)
Words(s) ==
    LET t == LStrip(s)
        len == IF \E n \in DOMAIN t : IsSpace(t[n])
               THEN (CHOOSE n \in DOMAIN t :
                        IsSpace(t[n]) /\ \A m \in 1..(n-1) : ~IsSpace(t[m])) - 1
               ELSE Len(t)
    IN  IF t = <<>> THEN <<>>
        ELSE <<SubSeq(t, 1, len)>> \o Words(SubSeq(t, len + 1, Len(t)))

\* C26: key_to_snake_case returns only lower-case word characters and
\* underscores, and turns the field name N(degree) B(a circumflex)timent
\* into n_b_timent.
C26_SnakeCaseOfExample ==
    (p_fn = "key_to_snake_case" /\ p_result # <<>>) =>
        /\ \A n \in DOMAIN p_result[1] :
              /\ IsWord(p_result[1][n])
              /\ LowerChar(p_result[1][n]) = p_result[1][n]
        /\ p_arg = NBatiment =>
              p_result[1] = <<"n", "_", "b", "_", "t", "i", "m", "e", "n", "t">>

LastSource ==
    IF job = "sitg_authorizations" THEN fetched[Last(upsert_log).ds]
    ELSE fetched[1]

\* C29: when has_column found the geometry column in the destination's
\* table, every record fetched with a geometry is sent with that geometry.
C29_GeometryKeptWhenColumnExists ==
    (job \in FetchJobs /\ upsert_log # <<>> /\ geom_col) =>
        \A n \in DOMAIN LastSource :
            "geometry" \in DOMAIN LastSource[n] =>
                /\ "geometry" \in DOMAIN upsert_records[n]
                /\ upsert_records[n].geometry = LastSource[n].geometry
\* C30: every POST of batch_upsert went to {url}/rest/v1/{table} with
\* on_conflict={conflict_column} and Prefer: resolution=merge-duplicates,
\* and has the Content-Profile header, naming the schema, exactly when
\* the schema is neither empty nor 'public'.
C30_PostEndpointAndHeaders ==
    \A q \in posted :
        /\ q.endpoint.base = url
        /\ q.endpoint.path = <<"rest", "v1", target.table>>
        /\ q.endpoint.on_conflict = target.conflict_column
        /\ q.headers["Prefer"] = "resolution=merge-duplicates"
        /\ "Content-Profile" \in DOMAIN q.headers
              <=> (target.schema # "" /\ target.schema # "public")
        /\ "Content-Profile" \in DOMAIN q.headers
              => q.headers["Content-Profile"] = target.schema

\* Both calls have posted to a table of the schema 'bronze'.
C30_Witness ==
    /\ SecondCallDone
    /\ target.schema = "bronze"
    /\ records # <<>> /\ first_call.records # <<>>
    /\ \E q \in posted : "Content-Profile" \in DOMAIN q.headers
\* A 200 or 201 response.
IsAck(r) == r.exc = "none" /\ r.status \in {200, 201}

\* C31: a POST is issued only for the chunk at the running offset, all
\* chunks before it have ended (ACKNOWLEDGED or FAILED) and keep the state
\* they ended in, the offset never goes back, and a 200/201 response ends
\* its chunk, so that no POST for that chunk follows.
C31_ChunksInSubmissionOrder ==
    /\ [](u_pc = "post" =>
            /\ batch = Chunk(records, i, batch_size)
            /\ i = Len(outcomes) * batch_size
            /\ \A k \in DOMAIN outcomes :
                  outcomes[k].status \in {"ACKNOWLEDGED", "FAILED"}
            /\ \A k \in DOMAIN u_responses : ~IsAck(u_responses[k]))
    /\ [][u_posts' # u_posts =>
            /\ u_pc = "post"
            /\ u_posts' = u_posts + 1
            /\ IsAck(Last(u_responses')) =>
                  /\ u_pc' = "loop"
                  /\ i' = i + batch_size
                  /\ Last(outcomes').status = "ACKNOWLEDGED"
                  /\ Last(outcomes').batch = batch]_vars
    /\ [][/\ i' >= i
          /\ Len(outcomes') >= Len(outcomes)
          /\ \A k \in DOMAIN outcomes : outcomes'[k] = outcomes[k]]_vars

\* The second chunk is being retried after the first was acknowledged.
C31_Witness ==
    /\ u_pc = "post"
    /\ Len(outcomes) = 1
    /\ outcomes[1].status = "ACKNOWLEDGED"
    /\ Len(u_responses) = 2

\* ceil(n / d) for d >= 1.
Ceil(n, d) == (n + d - 1) \div d

\* The chunks not yet ended, the one being posted included.
RemainingChunks ==
    IF i >= Len(records) THEN 0 ELSE Ceil(Len(records) - i, batch_size)

\* A bound on the steps batch_upsert still has to take.
UpsertRank ==
    IF u_pc = "start"
        THEN 2 + Ceil(Len(records), batch_size) * (MAX_RETRIES + 1)
    ELSE IF u_pc = "loop"
        THEN 1 + RemainingChunks * (MAX_RETRIES + 1)
    ELSE IF u_pc = "post"
        THEN 1 + (RemainingChunks - 1) * (MAX_RETRIES + 1)
               + (MAX_RETRIES - attempt + 1)
    ELSE 0

\* C32: batch_upsert never issues more than 3 * ceil(len(records) /
\* batch_size) POSTs, and it terminates: until it has returned it always
\* has a next step, and every step lowers a bound on the steps left, which
\* is never negative.
C32_UpsertTerminates ==
    /\ [](u_pc # "idle" =>
            /\ u_posts <= 3 * Ceil(Len(records), batch_size)
            /\ UpsertRank >= 0
            /\ u_pc \in {"start", "loop", "post"} => ENABLED NextUpsert)
    /\ [][u_pc # "idle" => UpsertRank' < UpsertRank]_vars

\* A call that used up every attempt of every chunk has returned.
C32_Witness ==
    /\ u_pc = "done"
    /\ Len(records) > batch_size
    /\ u_posts = 3 * Ceil(Len(records), batch_size)
    /\ u_returned = <<0>>

\* C35: with an empty url, an empty key or an empty record list,
\* batch_upsert issues no POST, goes straight to its return and returns 0.
C35_ReturnsZeroWithoutRequest ==
    (u_pc # "idle" /\ (url = "" \/ key = "" \/ records = <<>>)) =>
        /\ u_posts = 0
        /\ u_pc \in {"start", "done"}
        /\ u_pc = "done" => u_returned = <<0>>

\* The key alone is missing.
C35_Witness ==
    /\ u_pc = "done"
    /\ url # "" /\ key = "" /\ records # <<>>
    /\ u_returned = <<0>>

\* The GETs one request of the fetch can take: the first call of _get_json
\* and its MAX_RETRIES self-calls.
AttemptBound == ARCGIS_MAX_RETRIES + 1

\* What fetch_all_features still has to do: the count request, then the
\* pages not yet read, then the attempts the request in hand has left.
FetchRank ==
    IF f_pc = "count" THEN <<1, 0, AttemptBound - retry>>
    ELSE IF f_pc = "page"
        THEN <<0, Len(offsets) - page_num + 1, AttemptBound - retry>>
    ELSE <<0, 0, 0>>

\* The lexicographic order on triples of naturals.
LexLess(a, b) ==
    \/ a[1] < b[1]
    \/ a[1] = b[1] /\ a[2] < b[2]
    \/ a[1] = b[1] /\ a[2] = b[2] /\ a[3] < b[3]

\* C33: fetch_all_features issues at most 1 + ceil(count / page_size)
\* requests, each takes at most ARCGIS_MAX_RETRIES + 1 GETs, _get_json is
\* never nested deeper than that, and the fetch terminates: until it has
\* returned or raised it always has a next step, and every step lowers a
\* triple of naturals in the lexicographic order.
C33_FetchTerminates ==
    /\ [](f_pc # "idle" =>
            /\ Len(f_requests) <= 1 + Ceil(count, page_size)
            /\ f_gets <= AttemptBound
            /\ retry + 1 <= AttemptBound
            /\ \A k \in 1..3 : FetchRank[k] >= 0
            /\ f_pc \in {"count", "page"} => ENABLED NextFetch)
    /\ [][f_pc # "idle" => LexLess(FetchRank', FetchRank)]_vars

\* Every page was requested, and the last one took every attempt.
C33_Witness ==
    /\ f_pc = "returned"
    /\ count = MaxCount
    /\ Len(f_requests) = 1 + Ceil(count, page_size)
    /\ Len(f_requests) > 2
    /\ f_gets = AttemptBound

\* The destination holds the record as it was submitted.
Held(rec) == \E n \in DOMAIN dest_rows : dest_rows[n] = rec

\* The submitted records the destination holds.
HeldRecords == {j \in DOMAIN records : Held(records[j])}

\* C34: against the merging table with lost requests and lost answers,
\* the running total and the returned count never exceed the number of
\* submitted records the table holds, and every record of an acknowledged
\* chunk is in the table.
C34_CountNeverExceedsHeld ==
    /\ total_upserted <= Cardinality(HeldRecords)
    /\ u_pc = "done" => u_returned[1] <= Cardinality(HeldRecords)
    /\ \A k \in DOMAIN outcomes :
          outcomes[k].status = "ACKNOWLEDGED" =>
              \A n \in DOMAIN outcomes[k].batch : Held(outcomes[k].batch[n])

\* Every answer was lost: the table holds every record, all of them new to
\* it, and the call returned 0.
C34_Witness ==
    /\ u_pc = "done"
    /\ u_returned = <<0>>
    /\ Len(records) > batch_size
    /\ \A j \in DOMAIN records : Held(records[j]) /\ records[j].val # "old"
    /\ \A k \in DOMAIN outcomes : outcomes[k].status = "FAILED"
    /\ \A k \in DOMAIN u_responses : u_responses[k] = Raised("Timeout")

\* The HEAD request gave no row count: it raised, or its response has no
\* content-range header of the form RANGE/TOTAL with a numeral as TOTAL.
Undetermined(p) ==
    \/ p.exc # "none"
    \/ p.cr \notin {<<r, ToString(n)>> : r \in {"0-0", "*"}, n \in 0..MaxRows}

\* C36: in simap, a get_row_count whose probe gave no count returns the
\* unknown value and not 0; when the count before or the count after is
\* unknown the decrease check is skipped, and a run whose check was
\* skipped exits with the status of a run whose check passed, which is 0.
C36_UnknownRowCountSkipsCheck ==
    (job = "simap" /\ p_fn = "get_row_count") =>
        /\ Undetermined(p_arg) => p_result = <<Unknown>> /\ p_result # <<0>>
        /\ (row_check = "none" /\ Undetermined(p_arg)) => rows_before = Unknown
        /\ (row_check # "none" /\ (Undetermined(p_arg) \/ rows_before = Unknown))
              => row_check = "skipped"
        /\ row_check \in {"skipped", "passed"} =>
              exit_status = <<0>> /\ ~decrease_seen

\* The count before was read, the probe after the upsert met a header
\* without a number, and the run exited.
C36_Witness ==
    /\ job = "simap"
    /\ j_pc = "exited"
    /\ rows_before = MaxRows
    /\ p_arg = [exc |-> "none", cr |-> <<"*", "*">>]
    /\ row_check = "skipped"
    /\ exit_status = <<0>>

\* The failure mark of a SITG job: sitg_servitudes leaves primary_ok False
\* after the upsert to the required destination, process_destination of
\* sitg_authorizations sets all_ok False (lamap_ok once it has returned for
\* the required destination), sitg_urban_programs sets any_failure.
MarkedFailed ==
    IF job = "sitg_servitudes" THEN upsert_log # <<>> /\ ~flags.primary_ok
    ELSE IF job = "sitg_authorizations"
        THEN IF j_pc = "dataset" THEN ~flags.all_ok
             ELSE network_used /\ ~flags.lamap_ok
    ELSE flags.any_failure

\* batch_upsert returned 0 for the destination the mark is about.
ZeroReturned ==
    IF job = "sitg_authorizations" /\ j_pc = "dataset"
        THEN dests[dest_idx] \in zero_ack
    ELSE Primary(job) \in zero_ack

\* The latest batch_upsert acknowledged some of its records, not all.
PartialUpsert == 0 < upserted /\ upserted < Len(upsert_records)

C38_KeyNormalisation ==
    (p_fn = "normalise_keys" /\ p_result # <<>>) =>
        LET out == p_result[1] IN
        /\ DOMAIN out = DOMAIN p_arg
        /\ \A n \in DOMAIN out :
              /\ DOMAIN out[n] = UNION {DOMAIN p_arg[m] : m \in DOMAIN p_arg}
              /\ \A k \in DOMAIN out[n] :
                    out[n][k] = IF k \in DOMAIN p_arg[n]
                                THEN p_arg[n][k] ELSE "null"
        /\ p_arg = <<[a |-> "1"], [b |-> "2"]>> =>
              out = <<[a |-> "1", b |-> "null"], [a |-> "null", b |-> "2"]>>

\* The example of the claim has been normalised.
C38_Witness ==
    /\ p_fn = "normalise_keys"
    /\ p_arg = <<[a |-> "1"], [b |-> "2"]>>
    /\ p_result = << <<[a |-> "1", b |-> "null"], [a |-> "null", b |-> "2"]>> >>

====
